---- MODULE Spec2Model ----
(***************************************************************************)
(* Query orchestration of the OmniTech support agent.                      *)
(*                                                                         *)
(*   src/rag_agent.py                       OmniTechAgent, SyncAgent       *)
(*   src/minimal_app/rag_agent_minimal.py   the minimal SyncAgent          *)
(*                                                                         *)
(* Three specifications share the variables below:                         *)
(*   Spec      one OmniTechAgent: connect, process_query and its two       *)
(*             workflows, resumed at every await of a tool call            *)
(*   SpecLog   a caller driving OmniTechAgent.call_tool past the log cap   *)
(*   SpecMin   the minimal agent: query() and clear_history()              *)
(***************************************************************************)
EXTENDS Integers, Sequences, FiniteSets, TLC

(***************************************************************************)
(* Bounds of the model and constants of the program.                       *)
(***************************************************************************)
\* process_query calls made in one behaviour of Spec
MaxQueries == 1

\* call_tool invocations made in one behaviour of SpecLog
MaxCalls == 22

\* invocations of SpecLog that do not end in a plain successful result
MaxFaults == 1

\* query() calls made in one behaviour of SpecMin
MaxTurns == 4

\* rag_agent.py:197-198, the cap of mcp_calls_log
LOG_CAP == 20

\* rag_agent_minimal.py:65, self.max_history
max_history == 3

\* rag_agent.py:326 and :403, rag_agent_minimal.py:338: the fallback response cut
RESPONSE_CUT == 500

\* rag_agent.py:333 and :409: the knowledge cut of the knowledge-base-only text
KNOWLEDGE_CUT == 400

\* rag_agent.py:380-381: matches[:3]
TOP_K == 3

(***************************************************************************)
(* Python values.  A value is a record tagged by its type in field t; the  *)
(* other fields differ per type, so values of different types are unequal. *)
(* Confidences are in hundredths (0.7 is 70).                              *)
(***************************************************************************)
\* a short literal str (every one in the model is shorter than KNOWLEDGE_CUT
\* and is not valid JSON)
S(s) == [t |-> "str", s |-> s]

\* the first len characters of the long, non-JSON text named s
T(s, len) == [t |-> "text", s |-> s, len |-> len]

\* a str given character by character (query texts)
Q(chars) == [t |-> "qstr", chars |-> chars]

\* an f-string / str.format result: the named format filled with args
F(f, args) == [t |-> "fstr", f |-> f, args |-> args]

\* the str json.dumps(v): a text that is valid JSON for the value v
J(v) == [t |-> "json", val |-> v]

\* a generated text of len characters named s that is not valid JSON as a
\* whole and embeds one brace-delimited item: after "```json\n" and before
\* "\n```" (kind "fenced_json"), between "```\n" and "\n```" (kind
\* "fenced"), or in the middle of prose (kind "inline").  val is the value
\* the item is the JSON text of, or Broken
X(kind, s, val, len) ==
    [t |-> "mixed", kind |-> kind, s |-> s, val |-> val, len |-> len]

\* a flat brace-delimited item that is not valid JSON (a trailing comma);
\* quoted: it holds "response" in double quotes
Broken(quoted) == [t |-> "broken", quoted |-> quoted]

N(n) == [t |-> "num", n |-> n]

L(items) == [t |-> "list", items |-> items]

D(d) == [t |-> "dict", d |-> d]

None == [t |-> "none"]

\* an object without mapping behaviour: the CallToolResult envelope itself
Obj == [t |-> "obj"]

\* an assignment that keeps the value a key already has
Put_keep(d, k, v) == [x \in (DOMAIN d) \cup {k} |-> IF x \in DOMAIN d THEN d[x] ELSE v]

\* d[k] = v on a dict's field function
Put(d, k, v) == [x \in (DOMAIN d) \cup {k} |-> IF x = k THEN v ELSE d[x]]

\* d.get(k, default) on a dict's field function
Get(d, k, default) == IF k \in DOMAIN d THEN d[k] ELSE default

Min(a, b) == IF a <= b THEN a ELSE b

\* x[:n] of a str value
Slice(x, n) ==
    CASE x.t = "text" -> T(x.s, Min(x.len, n))
      [] x.t = "qstr" -> Q(SubSeq(x.chars, 1, Min(Len(x.chars), n)))
      [] x.t = "fstr" -> F("{}[:{}]", <<x, N(n)>>)
      [] x.t = "mixed" -> IF x.len <= n THEN x ELSE T(x.s, n)
      [] OTHER -> x

(***************************************************************************)
(* Character texts: str.lower(), the substring test and re.search of the   *)
(* routing patterns.                                                       *)
(***************************************************************************)
UpperAlpha ==
    <<"A","B","C","D","E","F","G","H","I","J","K","L","M","N","O","P","Q","R","S","T","U","V","W","X","Y","Z">>

LowerAlpha ==
    <<"a","b","c","d","e","f","g","h","i","j","k","l","m","n","o","p","q","r","s","t","u","v","w","x","y","z">>

WordChars ==
    {UpperAlpha[i] : i \in 1..26} \cup {LowerAlpha[i] : i \in 1..26}
        \cup {"0","1","2","3","4","5","6","7","8","9","_"}

LowerChar(c) ==
    IF \E i \in 1..26 : UpperAlpha[i] = c
    THEN LowerAlpha[CHOOSE i \in 1..26 : UpperAlpha[i] = c]
    ELSE c

\* str.lower()
Lower(s) == [i \in 1..Len(s) |-> LowerChar(s[i])]

\* s[i:].startswith(p), i counted from 1
StartsAt(s, i, p) ==
    /\ i >= 1
    /\ i + Len(p) - 1 <= Len(s)
    /\ \A k \in 1..Len(p) : s[i + k - 1] = p[k]

\* p in s
Contains(s, p) == \E i \in 1..(Len(s) + 1) : StartsAt(s, i, p)

\* rag_agent.py:67-72, in dict order: category, then its keywords in list order
SUPPORT_KEYWORDS ==
    << [category |-> "security", keywords |->
          << <<"p","a","s","s","w","o","r","d">>,
             <<"r","e","s","e","t">>,
             <<"2","f","a">>,
             <<"a","u","t","h","e","n","t","i","c","a","t","i","o","n">>,
             <<"h","a","c","k","e","d">>,
             <<"c","o","m","p","r","o","m","i","s","e","d">>,
             <<"l","o","g","i","n">> >>],
       [category |-> "device", keywords |->
          << <<"d","e","v","i","c","e">>,
             <<"w","o","n","'","t"," ","t","u","r","n">>,
             <<"f","r","o","z","e","n">>,
             <<"s","c","r","e","e","n">>,
             <<"f","a","c","t","o","r","y"," ","r","e","s","e","t">>,
             <<"b","r","o","k","e","n">>,
             <<"p","o","w","e","r">> >>],
       [category |-> "shipping", keywords |->
          << <<"s","h","i","p">>,
             <<"d","e","l","i","v","e","r","y">>,
             <<"t","r","a","c","k">>,
             <<"o","r","d","e","r">>,
             <<"a","r","r","i","v","e">>,
             <<"p","a","c","k","a","g","e">> >>],
       [category |-> "returns", keywords |->
          << <<"r","e","t","u","r","n">>,
             <<"r","e","f","u","n","d">>,
             <<"w","a","r","r","a","n","t","y">>,
             <<"e","x","c","h","a","n","g","e">>,
             <<"m","o","n","e","y"," ","b","a","c","k">> >>] >>

\* rag_agent.py:95-104, the patterns that are literal texts
LiteralPatterns ==
    << <<"h","o","w"," ","d","o"," ","i">>,
       <<"h","o","w"," ","c","a","n"," ","i">>,
       <<"w","h","a","t"," ","s","h","o","u","l","d"," ","i">>,
       <<"c","a","n"," ","y","o","u"," ","h","e","l","p">>,
       <<"i"," ","n","e","e","d"," ","h","e","l","p">>,
       <<"p","r","o","b","l","e","m"," ","w","i","t","h">>,
       <<"i","s","s","u","e"," ","w","i","t","h">> >>

\* re.search(r"my \w+ (is|isn't|won't)", s)
MatchMyNoun(s) ==
    \E i \in 1..Len(s) :
        /\ StartsAt(s, i, <<"m","y"," ">>)
        /\ \E j \in (i + 3)..Len(s) :
               /\ \A k \in (i + 3)..j : s[k] \in WordChars
               /\ StartsAt(s, j + 1, <<" ">>)
               /\ \/ StartsAt(s, j + 2, <<"i","s">>)
                  \/ StartsAt(s, j + 2, <<"i","s","n","'","t">>)
                  \/ StartsAt(s, j + 2, <<"w","o","n","'","t">>)

\* the query texts submitted in the model
Q_TellMe == <<"T","e","l","l"," ","m","e"," ","a","b","o","u","t"," ","O","m","n","i","T","e","c","h">>

Q_HowCanI == <<"H","o","w"," ","c","a","n"," ","I"," ","p","a","y">>

Q_MyTv == <<"M","y"," ","T","V"," ","i","s"," ","h","o","t">>

Q_MyIs == <<"O","h"," ","m","y"," ","i","s"," ","i","t">>

Q_Shipment == <<"S","h","i","p","m","e","n","t","?">>

Queries == {Q_TellMe, Q_HowCanI, Q_MyTv, Q_MyIs, Q_Shipment}

\* is_support_query with the tests made on the query as written
is_support_query_cased(query) ==
    LET query_lower == query
    IN  \/ \E c \in 1..Len(SUPPORT_KEYWORDS) :
               \E k \in 1..Len(SUPPORT_KEYWORDS[c].keywords) :
                   Contains(query_lower, SUPPORT_KEYWORDS[c].keywords[k])
        \/ \E p \in 1..Len(LiteralPatterns) :
               Contains(query_lower, LiteralPatterns[p])
        \/ MatchMyNoun(query_lower)

(***************************************************************************)
(* rag_agent.py:84-110.  Keywords are tried category by category on the    *)
(* lower-cased query, then the help-seeking patterns.                      *)
(***************************************************************************)
is_support_query(query) ==
    LET query_lower == Lower(query)
    IN  \/ \E c \in 1..Len(SUPPORT_KEYWORDS) :
               \E k \in 1..Len(SUPPORT_KEYWORDS[c].keywords) :
                   Contains(query_lower, SUPPORT_KEYWORDS[c].keywords[k])
        \/ \E p \in 1..Len(LiteralPatterns) :
               Contains(query_lower, LiteralPatterns[p])
        \/ MatchMyNoun(query_lower)

(***************************************************************************)
(* What Python does with a value of each type.                             *)
(***************************************************************************)
\* the literal texts of the model that contain "error" as written
ErrorTextsExact == {"tool error: bad input", "error"}

\* the literal texts of the model that contain "error" in any letter case
ErrorTextsAnyCase == ErrorTextsExact \cup {"Internal Server Error"}

IsStr(x) == x.t \in {"str", "text", "qstr", "fstr", "json", "mixed"}

\* `"error" in x` raises TypeError (x is not iterable)
InRaises(x) == x.t \in {"num", "none"}

\* `"error" in x` where it does not raise: key test on a dict, substring
\* test on a str, element test on a list; the pydantic envelope iterates
\* over (field, value) pairs, none of which equals "error"
HasErrorKey(x) ==
    CASE x.t = "dict" -> "error" \in DOMAIN x.d
      [] x.t = "str"  -> x.s \in ErrorTextsExact
      [] x.t = "text" -> x.s \in ErrorTextsExact
      [] x.t = "list" -> \E i \in 1..Len(x.items) : x.items[i] = S("error")
      [] OTHER -> FALSE

\* x.get(...) raises AttributeError: only a dict has .get
GetRaises(x) == x.t # "dict"

\* bool(x) is False
Falsy(x) ==
    CASE x.t = "none" -> TRUE
      [] x.t = "num"  -> x.n = 0
      [] x.t = "str"  -> x.s = ""
      [] x.t = "text" -> x.len = 0
      [] x.t = "qstr" -> x.chars = <<>>
      [] x.t = "list" -> x.items = <<>>
      [] x.t = "dict" -> DOMAIN x.d = {}
      [] OTHER -> FALSE

\* len(x) raises TypeError
LenRaises(x) == x.t \in {"num", "none", "obj"}

\* "error" in str(x).lower(): the text of a dict or list shows its keys and
\* items, the text of the envelope shows its field isError
RECURSIVE ErrorInStr(_)
ErrorInStr(x) ==
    CASE x.t = "dict" ->
            \/ "error" \in DOMAIN x.d
            \/ \E k \in DOMAIN x.d : ErrorInStr(x.d[k])
      [] x.t = "list" -> \E i \in 1..Len(x.items) : ErrorInStr(x.items[i])
      [] x.t = "str"  -> x.s \in ErrorTextsAnyCase
      [] x.t = "text" -> x.s \in ErrorTextsAnyCase
      [] x.t = "json" -> ErrorInStr(x.val)
      [] x.t = "fstr" -> \E i \in 1..Len(x.args) : ErrorInStr(x.args[i])
      [] x.t = "obj"  -> TRUE
      [] OTHER -> FALSE

\* json.loads(text): the value of a JSON text, JSONDecodeError for any
\* other str, TypeError for a value that is no str
json_loads(text) ==
    CASE text.t = "json" -> [ok |-> TRUE, val |-> text.val]
      [] IsStr(text)     -> [ok |-> FALSE, exc |-> "JSONDecodeError"]
      [] OTHER           -> [ok |-> FALSE, exc |-> "TypeError"]

(***************************************************************************)
(* The tool transport.  session.call_tool either raises or returns an      *)
(* envelope whose content is a list of payloads; a text payload carries a  *)
(* str, any other payload has no text attribute.                           *)
(***************************************************************************)
Raise(msg) == [k |-> "raise", msg |-> msg]

Envelope(content) == [k |-> "result", content |-> content]

TextPayload(text) == [type |-> "text", text |-> text]

ImagePayload == [type |-> "image"]

\* rag_agent.py:113-121.  [exc, val]: the exception that leaves the function
\* ("" for none) and the value returned
unwrap_mcp_result(obj) ==
    IF obj.content # <<>>
    THEN IF obj.content[1].type # "text"
         THEN [exc |-> "AttributeError", val |-> None]
         ELSE LET content == obj.content[1].text
                  loaded == json_loads(content)
              IN  IF loaded.ok
                  THEN [exc |-> "", val |-> loaded.val]
                  ELSE [exc |-> "", val |-> content]
    ELSE [exc |-> "", val |-> Obj]

\* a truncation that keeps the oldest records
TruncateLog_head(log) ==
    IF Len(log) > LOG_CAP
    THEN SubSeq(log, 1, LOG_CAP)
    ELSE log

\* rag_agent.py:197-198
TruncateLog(log) ==
    IF Len(log) > LOG_CAP
    THEN SubSeq(log, Len(log) - LOG_CAP + 1, Len(log))
    ELSE log

\* a record whose flag tests `"error" in parsed` instead of the lower-cased text
ToolCallRecord_membership(stamp, tool_name, arguments, parsed) ==
    [timestamp |-> stamp,
     tool      |-> tool_name,
     arguments |-> arguments,
     success   |-> ~HasErrorKey(parsed)]

\* rag_agent.py:189-195.  The timestamp is the number of the invocation;
\* the measured duration is left out
ToolCallRecord(stamp, tool_name, arguments, parsed) ==
    [timestamp |-> stamp,
     tool      |-> tool_name,
     arguments |-> arguments,
     success   |-> ~ErrorInStr(parsed)]

\* rag_agent.py:181-204, from the return of session.call_tool on:
\* [ret, log, logged], the value handed to the caller, the log afterwards
\* and whether a record was appended
call_tool_resume(log, stamp, tool_name, arguments, outcome) ==
    IF outcome.k = "raise"
    THEN [ret |-> D([error |-> S(outcome.msg)]), log |-> log, logged |-> FALSE]
    ELSE LET parsed == unwrap_mcp_result(outcome)
         IN  IF parsed.exc # ""
             THEN [ret |-> D([error |-> S(parsed.exc)]), log |-> log,
                   logged |-> FALSE]
             ELSE [ret    |-> parsed.val,
                   log    |-> TruncateLog(Append(log,
                                ToolCallRecord(stamp, tool_name, arguments,
                                               parsed.val))),
                   logged |-> TRUE]

\* rag_agent.py:178-179: call_tool raises before its try block
call_tool_raises(sess) == sess = "none"

(***************************************************************************)
(* The generation backend and query_llm.                                   *)
(***************************************************************************)
SENTINEL == S("KNOWLEDGE_BASE_ONLY")

\* rag_agent.py:212-216 and :245-249
KnowledgeBaseOnlyJson ==
    J(D([response |-> SENTINEL, action_needed |-> S("none"),
         confidence |-> N(70)]))

\* rag_agent.py:239-243
WarmingUpJson ==
    J(D([response |-> S("The AI model is warming up. Please try again in a moment."),
         action_needed |-> S("none"), confidence |-> N(50)]))

\* the texts str(e) of the exceptions the backend raises in the model
BackendErrors ==
    {"503 Service Unavailable", "Model is loading",
     "Loading checkpoint shards", "401 Unauthorized"}

\* an error text, character by character
BackendErrorText(msg) ==
    CASE msg = "503 Service Unavailable" ->
            <<"5","0","3"," ","S","e","r","v","i","c","e"," ","U","n","a","v","a","i","l","a","b","l","e">>
      [] msg = "Model is loading" ->
            <<"M","o","d","e","l"," ","i","s"," ","l","o","a","d","i","n","g">>
      [] msg = "Loading checkpoint shards" ->
            <<"L","o","a","d","i","n","g"," ","c","h","e","c","k","p","o","i","n","t"," ","s","h","a","r","d","s">>
      [] msg = "401 Unauthorized" ->
            <<"4","0","1"," ","U","n","a","u","t","h","o","r","i","z","e","d">>

\* the transient test applied to the error text as written
TransientErrors_cased ==
    {msg \in BackendErrors :
        \/ Contains(BackendErrorText(msg), <<"5","0","3">>)
        \/ Contains(BackendErrorText(msg), <<"l","o","a","d","i","n","g">>)}

\* rag_agent.py:238 and rag_agent_minimal.py:145: the error texts that hold
\* "503", or "loading" once lower-cased
TransientErrors ==
    {msg \in BackendErrors :
        \/ Contains(BackendErrorText(msg), <<"5","0","3">>)
        \/ Contains(Lower(BackendErrorText(msg)), <<"l","o","a","d","i","n","g">>)}

\* a client that goes to the backend without a credential
query_llm_unguarded(client, backend) ==
    IF backend.k = "content" /\ backend.content.t # "none"
    THEN backend.content
    ELSE KnowledgeBaseOnlyJson

\* rag_agent.py:208-249.  backend: what chat_completion does, [k |-> "raise",
\* msg], or [k |-> "content", content] with the message content (None when
\* the completion carries none)
query_llm(client, backend) ==
    IF ~client
    THEN KnowledgeBaseOnlyJson
    ELSE IF backend.k = "content" /\ backend.content.t # "none"
         THEN backend.content
         ELSE LET error_msg == IF backend.k = "raise" THEN backend.msg
                               ELSE "object of type 'NoneType' has no len()"
              IN  IF error_msg \in TransientErrors
                  THEN WarmingUpJson
                  ELSE KnowledgeBaseOnlyJson

(***************************************************************************)
(* The Classification workflow, rag_agent.py:253-357, cut at its awaits.   *)
(* Each part maps the value call_tool handed back to a record              *)
(*   [ret, result, category, confidence, template, description, wlog]      *)
(* ret: the workflow returns here, with result; otherwise it goes on to    *)
(* the next tool call with the locals given.                               *)
(***************************************************************************)
\* rag_agent.py:350-357
hs_except(exc, wlog) ==
    D([response     |-> S("I encountered an error. Please try again."),
       error        |-> S(exc),
       workflow     |-> S("classification"),
       workflow_log |-> L(wlog)])

hs_return(result, wlog) ==
    [ret |-> TRUE, result |-> result, category |-> None, confidence |-> None,
     template |-> None, description |-> None, wlog |-> wlog]

hs_continue(category, confidence, template, description, wlog) ==
    [ret |-> FALSE, result |-> None, category |-> category,
     confidence |-> confidence, template |-> template,
     description |-> description, wlog |-> wlog]

\* rag_agent.py:270-278
hs_after_classify(classification, wlog) ==
    IF InRaises(classification)
    THEN hs_return(hs_except("TypeError", wlog), wlog)
    ELSE IF HasErrorKey(classification)
    THEN IF classification.t = "dict"
         THEN hs_return(D([error |-> F("Classification failed: {}",
                                       <<classification.d["error"]>>)]), wlog)
         ELSE hs_return(hs_except("TypeError", wlog), wlog)
    ELSE IF GetRaises(classification)
    THEN hs_return(hs_except("AttributeError", wlog), wlog)
    ELSE LET category   == Get(classification.d, "suggested_query",
                               S("general_support"))
             confidence == Get(classification.d, "confidence", N(0))
         IN  IF confidence.t # "num"
             THEN hs_return(hs_except("ValueError", wlog), wlog)
             ELSE hs_continue(category, confidence, None, None,
                      wlog \o <<F("[Result] Category: {} (confidence: {:.2f})",
                                  <<category, confidence>>),
                                S("[2/4] Getting template...")>>)

\* rag_agent.py:281-285
hs_after_template(template_info, category, confidence, wlog) ==
    IF InRaises(template_info)
    THEN hs_return(hs_except("TypeError", wlog), wlog)
    ELSE IF GetRaises(template_info)
    THEN hs_return(hs_except("AttributeError", wlog), wlog)
    ELSE LET template    == IF ~HasErrorKey(template_info)
                            THEN Get(template_info.d, "template", S(""))
                            ELSE S("")
             description == Get(template_info.d, "description", category)
         IN  hs_continue(category, confidence, template, description,
                 Append(wlog, F("[3/4] Retrieving knowledge for {}...",
                                <<category>>)))

\* the templates of the model that name a field other than query, knowledge
BadTemplates == {"Dear {customer}, about {query}: {knowledge}"}

\* rag_agent.py:322-329 and :399-406: the parse step of both workflows
parse_generated(llm_response) ==
    LET loaded == json_loads(llm_response)
    IN  IF loaded.ok
        THEN loaded.val
        ELSE D([response      |-> Slice(llm_response, RESPONSE_CUT),
                action_needed |-> S("none"),
                confidence    |-> N(60)])

\* x[:n] raises TypeError
SliceRaises(x) == x.t \in {"num", "none", "dict", "obj"}

\* rag_agent.py:310-317
json_instructions(formatted_prompt) ==
    F("{}\n\nRespond with JSON containing: response, action_needed, confidence\n\nJSON Response:",
      <<formatted_prompt>>)

\* rag_agent.py:292-348.  [result, wlog, prompts]: the result returned, the
\* workflow log at the return, the prompts handed to query_llm
hs_after_knowledge(knowledge_info, qry, category, confidence, template, description, wlog, client, backend) ==
    IF GetRaises(knowledge_info)
    THEN [result |-> hs_except("AttributeError", wlog), wlog |-> wlog,
          prompts |-> <<>>]
    ELSE
    LET knowledge == Get(knowledge_info.d, "knowledge",
                         S("No documentation found."))
        sources   == Get(knowledge_info.d, "sources", L(<<>>))
    IN
    IF LenRaises(sources)
    THEN [result |-> hs_except("TypeError", wlog), wlog |-> wlog,
          prompts |-> <<>>]
    ELSE
    LET wlog4 == wlog \o <<F("[INFO] Retrieved {len} source(s)", <<sources>>),
                           S("[4/4] Generating response...")>>
    IN
    IF ~Falsy(template) /\ ~IsStr(template)
    THEN [result |-> hs_except("AttributeError", wlog4), wlog |-> wlog4,
          prompts |-> <<>>]
    ELSE IF ~Falsy(template) /\ template.t = "str" /\ template.s \in BadTemplates
    THEN [result |-> hs_except("KeyError", wlog4), wlog |-> wlog4,
          prompts |-> <<>>]
    ELSE
    LET formatted_prompt ==
            IF ~Falsy(template)
            THEN F("template.format", <<template, Q(qry), knowledge>>)
            ELSE F("Please help with this customer question: {}\n\nBased on this documentation:\n{}\n\nProvide a helpful response.",
                   <<Q(qry), knowledge>>)
        full_prompt  == json_instructions(formatted_prompt)
        llm_response == query_llm(client, backend)
        parsed       == parse_generated(llm_response)
    IN
    IF GetRaises(parsed)
    THEN [result |-> hs_except("AttributeError", wlog4), wlog |-> wlog4,
          prompts |-> <<full_prompt>>]
    ELSE IF Get(parsed.d, "response", None) = SENTINEL /\ SliceRaises(knowledge)
    THEN [result |-> hs_except("TypeError", wlog4), wlog |-> wlog4,
          prompts |-> <<full_prompt>>]
    ELSE
    LET r1 == IF Get(parsed.d, "response", None) = SENTINEL
              THEN Put(Put(parsed.d, "response",
                           F("Based on our {}:\n\n{}...",
                             <<description, Slice(knowledge, KNOWLEDGE_CUT)>>)),
                       "confidence", N(80))
              ELSE parsed.d
        r2 == Put(r1, "classification",
                  D([category    |-> category,
                     confidence  |-> confidence,
                     description |-> description]))
        r3 == Put(r2, "workflow", S("classification"))
        \* the list stored under workflow_log is the list appended to at
        \* line 347, so the stored log ends with the success entry
        r4 == Put(r3, "workflow_log",
                  L(Append(wlog4, S("[SUCCESS] Response generated"))))
        r5 == Put(r4, "sources", sources)
        r6 == Put(r5, "llm_prompt", full_prompt)
    IN  [result  |-> D(r6),
         wlog    |-> Append(wlog4, S("[SUCCESS] Response generated")),
         prompts |-> <<full_prompt>>]

(***************************************************************************)
(* The Direct-RAG workflow, rag_agent.py:361-422.                          *)
(***************************************************************************)
\* rag_agent.py:416-422
he_except(exc) ==
    D([response |-> S("Search error. Please try again."),
       error    |-> S(exc),
       workflow |-> S("direct_rag")])

\* rag_agent.py:373-377
NotFoundResult ==
    D([response |-> S("I couldn't find relevant information. Please try rephrasing."),
       workflow |-> S("direct_rag"),
       sources  |-> L(<<>>)])

\* a search step that never takes the early return
no_matches_never(matches) == FALSE

\* rag_agent.py:372, `if not matches`
no_matches(matches) == Falsy(matches)

\* a context built from every match
TopMatches_all(matches) == matches.items

\* matches[:3]
TopMatches(matches) == SubSeq(matches.items, 1, Min(Len(matches.items), TOP_K))

\* set(m["source"] for m in matches[:3])
SourceSet(top) == {top[i].d["source"] : i \in 1..Len(top)}

\* list(set(...)): the listings of a set, in each order a set may iterate in
Listings(set) ==
    {seq \in [1..Cardinality(set) -> set] :
        \A x \in set : \E i \in 1..Cardinality(set) : seq[i] = x}

\* the comprehensions and the join of rag_agent.py:380-382 raise
BuildContextRaises(matches) ==
    \/ matches.t # "list"
    \/ \E i \in 1..Len(TopMatches(matches)) :
          LET m == TopMatches(matches)[i]
          IN  \/ m.t # "dict"
              \/ "content" \notin DOMAIN m.d
              \/ "source" \notin DOMAIN m.d
              \/ m.d["source"].t \in {"list", "dict"}
              \/ ~IsStr(m.d["content"])

\* the orders list(set(...)) may give the sources of a search result in
SourceOrders(search_result) ==
    IF search_result.t = "dict"
       /\ ~no_matches(Get(search_result.d, "matches", L(<<>>)))
       /\ ~BuildContextRaises(Get(search_result.d, "matches", L(<<>>)))
    THEN Listings(SourceSet(TopMatches(
             Get(search_result.d, "matches", L(<<>>)))))
    ELSE {<<>>}

\* rag_agent.py:370-414.  order: the order list(set(...)) gives the sources in
he_after_search(search_result, qry, client, backend, order) ==
    IF GetRaises(search_result)
    THEN [result |-> he_except("AttributeError"), prompts |-> <<>>]
    ELSE
    LET matches == Get(search_result.d, "matches", L(<<>>))
    IN
    IF no_matches(matches)
    THEN [result |-> NotFoundResult, prompts |-> <<>>]
    ELSE IF BuildContextRaises(matches)
    THEN [result |-> he_except("TypeError"), prompts |-> <<>>]
    ELSE
    LET top             == TopMatches(matches)
        knowledge_parts == [i \in 1..Len(top) |-> top[i].d["content"]]
        sources         == L(order)
        knowledge       == F("\n\n---\n\n.join", knowledge_parts)
        prompt          == F("Based on this documentation:\n{}\n\nAnswer this question: {}\n\nRespond with JSON containing: response, action_needed, confidence\n\nJSON Response:",
                             <<knowledge, Q(qry)>>)
        llm_response    == query_llm(client, backend)
        parsed          == parse_generated(llm_response)
    IN
    IF GetRaises(parsed)
    THEN [result |-> he_except("AttributeError"), prompts |-> <<prompt>>]
    ELSE
    LET r1 == IF Get(parsed.d, "response", None) = SENTINEL
              THEN Put(parsed.d, "response",
                       F("Here's what I found:\n\n{}...",
                         <<Slice(knowledge, KNOWLEDGE_CUT)>>))
              ELSE parsed.d
        r2 == Put(r1, "workflow", S("direct_rag"))
        r3 == Put(r2, "sources", sources)
        r4 == Put(r3, "llm_prompt", prompt)
    IN  [result |-> D(r4), prompts |-> <<prompt>>]

(***************************************************************************)
(* What the collaborators may answer.                                      *)
(***************************************************************************)
\* answers no workflow step expects: the transport raises, the envelope is
\* empty or holds no text, the text is no JSON, or is JSON but no object
ToolFaults ==
    { Raise("Connection closed"),
      Envelope(<<>>),
      Envelope(<<TextPayload(S("tool error: bad input"))>>),
      Envelope(<<TextPayload(J(N(5)))>>),
      Envelope(<<TextPayload(J(D([error |-> S("Unknown tool")])))>>) }

\* the three ways a later step's call fails: the transport raises, the text
\* is no JSON, the tool answers an error payload
StepFaults ==
    { Raise("Connection closed"),
      Envelope(<<TextPayload(S("tool error: bad input"))>>),
      Envelope(<<TextPayload(J(D([error |-> S("Unknown tool")])))>>) }

JsonAnswer(d) == Envelope(<<TextPayload(J(D(d)))>>)

ClassifyAnswers ==
    { JsonAnswer([suggested_query |-> S("account_security"),
                  confidence |-> N(85)]),
      JsonAnswer(<<>>),
      JsonAnswer([suggested_query |-> S("account_security"),
                  confidence |-> S("high")]) }

TemplateAnswers ==
    { JsonAnswer([template |-> S("Security help. Q: {query} Docs: {knowledge}"),
                  description |-> S("Account security")]),
      JsonAnswer([template |-> S("Dear {customer}, about {query}: {knowledge}"),
                  description |-> S("Account security")]),
      JsonAnswer([description |-> S("Account security")]) }

KnowledgeAnswers ==
    { JsonAnswer([knowledge |-> T("kb:password reset", 900),
                  sources |-> L(<<S("security.pdf")>>)]),
      JsonAnswer([knowledge |-> N(7), sources |-> L(<<>>)]),
      JsonAnswer([knowledge |-> T("kb:password reset", 900),
                  sources |-> N(2)]) }

Match(content, source) == D([content |-> content, source |-> source])

SearchAnswers ==
    { JsonAnswer([matches |-> L(<<>>)]),
      JsonAnswer([matches |->
          L(<<Match(T("doc:about", 300), S("about.pdf")),
              Match(T("doc:history", 300), S("about.pdf")),
              Match(T("doc:returns", 300), S("returns.pdf")),
              Match(T("doc:shipping", 300), S("shipping.pdf"))>>)]),
      JsonAnswer([matches |-> L(<<D([content |-> T("doc:about", 300)])>>)]) }

ToolAnswers(tool_name) ==
    CASE tool_name = "classify_query"          -> ToolFaults \cup ClassifyAnswers
      [] tool_name = "get_query_template"      -> StepFaults \cup TemplateAnswers
      [] tool_name = "get_knowledge_for_query" -> StepFaults \cup KnowledgeAnswers
      [] tool_name = "search_knowledge"        -> ToolFaults \cup SearchAnswers

Content(text) == [k |-> "content", content |-> text]

\* what chat_completion may do
Backends ==
    { Raise("503 Service Unavailable"),
      Raise("Model is loading"),
      Raise("401 Unauthorized"),
      Content(None),
      Content(J(D([response |-> S("Open Settings and choose Reset."),
                   action_needed |-> S("none"),
                   confidence |-> N(90)]))),
      Content(J(D([answer |-> S("Open Settings.")]))),
      Content(J(N(42))),
      Content(T("a long free-text answer", 800)),
      Content(J(D([response |-> S("See the attached log."),
                   classification |-> S("billing"),
                   workflow_log |-> L(<<S("[0/0] Made up")>>),
                   sources |-> L(<<S("made-up.pdf")>>),
                   llm_prompt |-> S("none")]))) }

(***************************************************************************)
(* State.                                                                  *)
(***************************************************************************)
VARIABLES
    \* OmniTechAgent (rag_agent.py:131-134) and the module's HF_CLIENT (:58)
    session,            \* "none" | "open"
    hf_client,          \* HF_CLIENT is not None
    mcp_calls_log,      \* list of ToolCallRecord
    \* the process_query coroutine and the locals of its workflow
    pc,                 \* "idle", or the tool call it awaits
    query,
    pending,            \* the arguments of the awaited call_tool
    workflow_log,
    category,
    confidence,
    template,
    description,
    result,             \* what the last process_query returned
    returned,           \* "none" | "value" | "raise"
    \* history of the run
    calls,              \* every call_tool invocation, in order
    ran,                \* the workflows entered by the current process_query
    llm_prompts,        \* the prompts the current process_query gave query_llm
    nqueries,           \* process_query calls started
    qstart,             \* invocations made before the current process_query
    nfaults,            \* SpecLog: invocations that ended in a fault
    \* the minimal agent (rag_agent_minimal.py:60-69)
    conversation_history,
    mcp_session,        \* "none" | "open"
    m_pc,
    m_message,
    m_pending,          \* the arguments of the awaited tool call
    m_docs,
    m_context,
    m_result,
    m_returned,         \* "none" | "value" | "raise"
    m_prompt,
    nturns,
    \* SpecGen: one generation, from query_llm to the value returned
    g_pc,               \* "off" | "prompted" | "generated" | "parsed" | "returned"
    g_agent,            \* the method that generates
    g_backend,          \* what chat_completion does if it is called
    g_called,           \* chat_completion was called
    g_text,             \* what query_llm returned
    g_parsed,           \* [exc, val] of the parse step
    g_result,           \* what the method returned
    \* SpecConc: coroutines that run against one agent and interleave
    c_kind,             \* "off" | "omni" (process_query) | "minimal" (query)
    c_tasks,            \* the position and the locals of each coroutine
    c_done              \* the records logged / the turns completed, in order

agent_vars == <<session, hf_client, mcp_calls_log>>

task_vars ==
    <<pc, query, pending, workflow_log, category, confidence, template,
      description, result, returned>>

ghost_vars == <<calls, ran, llm_prompts, nqueries, qstart, nfaults>>

min_vars ==
    <<conversation_history, mcp_session, m_pc, m_message, m_pending, m_docs,
      m_context, m_result, m_returned, m_prompt, nturns>>

gen_vars == <<g_pc, g_agent, g_backend, g_called, g_text, g_parsed, g_result>>

conc_vars == <<c_kind, c_tasks, c_done>>

vars == <<agent_vars, task_vars, ghost_vars, min_vars, gen_vars, conc_vars>>

\* rag_agent.py:131-134; HF_CLIENT is fixed when the module is imported
AgentInit ==
    /\ session = "none"
    /\ hf_client \in BOOLEAN
    /\ mcp_calls_log = <<>>

TaskInit ==
    /\ pc = "idle"
    /\ query = <<>>
    /\ pending = None
    /\ workflow_log = <<>>
    /\ category = None
    /\ confidence = None
    /\ template = None
    /\ description = None
    /\ result = None
    /\ returned = "none"

GhostInit ==
    /\ calls = <<>>
    /\ ran = {}
    /\ llm_prompts = <<>>
    /\ nqueries = 0
    /\ qstart = 0
    /\ nfaults = 0

\* rag_agent_minimal.py:60-69
MinInit ==
    /\ conversation_history = <<>>
    /\ mcp_session = "none"
    /\ m_pc = "idle"
    /\ m_message = <<>>
    /\ m_pending = None
    /\ m_docs = None
    /\ m_context = <<>>
    /\ m_result = None
    /\ m_returned = "none"
    /\ m_prompt = None
    /\ nturns = 0

\* no generation is under way
GenOff ==
    /\ g_pc = "off"
    /\ g_agent = "none"
    /\ g_backend = None
    /\ g_called = FALSE
    /\ g_text = None
    /\ g_parsed = None
    /\ g_result = None

\* no coroutines interleave
ConcOff ==
    /\ c_kind = "off"
    /\ c_tasks = <<>>
    /\ c_done = <<>>

Init == AgentInit /\ TaskInit /\ GhostInit /\ MinInit /\ GenOff /\ ConcOff

(***************************************************************************)
(* OmniTechAgent.connect, rag_agent.py:138-167.  The session is assigned   *)
(* at line 154; a failure before that line leaves it None, a failure after *)
(* it (initialize, list_tools) leaves it assigned and returns False.       *)
(***************************************************************************)
Connect ==
    /\ pc = "idle"
    /\ session = "none"
    /\ \E assigned \in BOOLEAN :
           session' = IF assigned THEN "open" ELSE "none"
    /\ UNCHANGED <<hf_client, mcp_calls_log, task_vars, ghost_vars, min_vars, gen_vars, conc_vars>>

\* one invocation of call_tool, as the history keeps it: how it ended and
\* the value it handed to its caller (None when it raised)
Invocation(tool_name, arguments, end, ret) ==
    [tool |-> tool_name, arguments |-> arguments, end |-> end, ret |-> ret]

\* a classification call that passes the lower-cased text
classify_arguments_lowered(user_query) == [user_query |-> Q(Lower(user_query))]

\* rag_agent.py:268, the arguments of the classification call
classify_arguments(user_query) == [user_query |-> Q(user_query)]

\* rag_agent.py:366-369, the arguments of the search call
search_arguments(user_query) == [query |-> Q(user_query), max_results |-> N(5)]

\* how a resumed call_tool ended: a record was logged, or the error payload
\* of line 204 was returned
EndOf(resumed) == IF resumed.logged THEN "logged" ELSE "error_payload"

(***************************************************************************)
(* process_query, rag_agent.py:426-438, up to the first await: the routing *)
(* decision and the first call_tool of the chosen workflow.  With no       *)
(* session call_tool raises at once and the workflow's handler returns.    *)
(***************************************************************************)
ProcessQuery(q) ==
    /\ pc = "idle"
    /\ nqueries < MaxQueries
    /\ nqueries' = nqueries + 1
    /\ qstart' = Len(calls)
    /\ query' = q
    /\ llm_prompts' = <<>>
    /\ category' = None
    /\ confidence' = None
    /\ template' = None
    /\ description' = None
    /\ LET support   == is_support_query(q)
           tool_name == IF support THEN "classify_query" ELSE "search_knowledge"
           arguments == IF support
                        THEN classify_arguments(q)
                        ELSE search_arguments(q)
           wlog      == IF support THEN <<S("[1/4] Classifying query...")>>
                        ELSE <<>>
       IN  /\ ran' = {IF support THEN "classification" ELSE "direct_rag"}
           /\ workflow_log' = wlog
           /\ IF call_tool_raises(session)
              THEN /\ calls' = Append(calls,
                                  Invocation(tool_name, arguments, "raised",
                                             None))
                   /\ result' = IF support
                                THEN hs_except("MCP session not initialized", wlog)
                                ELSE he_except("MCP session not initialized")
                   /\ returned' = "value"
                   /\ pending' = None
                   /\ pc' = "idle"
              ELSE /\ calls' = calls
                   /\ result' = None
                   /\ returned' = "none"
                   /\ pending' = [tool |-> tool_name, arguments |-> arguments]
                   /\ pc' = tool_name
    /\ UNCHANGED <<agent_vars, nfaults, min_vars, gen_vars, conc_vars>>

\* the awaited call_tool resumes with the transport's outcome
Resumed(outcome) ==
    call_tool_resume(mcp_calls_log, Len(calls) + 1, pending.tool,
                     pending.arguments, outcome)

\* a workflow that runs its first two steps a second time before it goes
\* to the knowledge call
NextCall_again(tool_name, arguments) ==
    /\ IF tool_name = "get_knowledge_for_query" /\ Len(calls) - qstart < 3
       THEN /\ pending' = [tool |-> "classify_query",
                           arguments |-> classify_arguments(query)]
            /\ pc' = "classify_query"
       ELSE /\ pending' = [tool |-> tool_name, arguments |-> arguments]
            /\ pc' = tool_name
    /\ result' = None
    /\ returned' = "none"

\* a workflow that goes to the knowledge call whatever step is due
NextCall_knowledge(tool_name, arguments) ==
    /\ pending' = [tool |-> "get_knowledge_for_query", arguments |-> arguments]
    /\ pc' = "get_knowledge_for_query"
    /\ result' = None
    /\ returned' = "none"

\* the next call_tool of a workflow; the session was there for the first
NextCall(tool_name, arguments) ==
    /\ pending' = [tool |-> tool_name, arguments |-> arguments]
    /\ pc' = tool_name
    /\ result' = None
    /\ returned' = "none"

Return(value) ==
    /\ pending' = None
    /\ pc' = "idle"
    /\ result' = value
    /\ returned' = "value"

\* rag_agent.py:268-279
ClassifyReturns(outcome) ==
    /\ pc = "classify_query"
    /\ LET resumed == Resumed(outcome)
           step    == hs_after_classify(resumed.ret, workflow_log)
       IN  /\ mcp_calls_log' = resumed.log
           /\ calls' = Append(calls, Invocation(pending.tool, pending.arguments,
                                                EndOf(resumed), resumed.ret))
           /\ workflow_log' = step.wlog
           /\ category' = step.category
           /\ confidence' = step.confidence
           /\ IF step.ret
              THEN Return(step.result)
              ELSE NextCall("get_query_template",
                            [query_name |-> step.category])
    /\ UNCHANGED <<session, hf_client, query, template, description, ran,
                   llm_prompts, nqueries, qstart, nfaults, min_vars,
                   gen_vars, conc_vars>>

\* rag_agent.py:279-290
TemplateReturns(outcome) ==
    /\ pc = "get_query_template"
    /\ LET resumed == Resumed(outcome)
           step    == hs_after_template(resumed.ret, category, confidence,
                                        workflow_log)
       IN  /\ mcp_calls_log' = resumed.log
           /\ calls' = Append(calls, Invocation(pending.tool, pending.arguments,
                                                EndOf(resumed), resumed.ret))
           /\ workflow_log' = step.wlog
           /\ template' = step.template
           /\ description' = step.description
           /\ IF step.ret
              THEN Return(step.result)
              ELSE NextCall("get_knowledge_for_query",
                            [category |-> category, query |-> Q(query),
                             max_results |-> N(3)])
    /\ UNCHANGED <<session, hf_client, query, category, confidence, ran,
                   llm_prompts, nqueries, qstart, nfaults, min_vars,
                   gen_vars, conc_vars>>

\* rag_agent.py:286-348: knowledge, the prompt, query_llm (a plain call, no
\* await), the parse step and the metadata
KnowledgeReturns(outcome, backend) ==
    /\ pc = "get_knowledge_for_query"
    /\ LET resumed == Resumed(outcome)
           step    == hs_after_knowledge(resumed.ret, query, category,
                          confidence, template, description, workflow_log,
                          hf_client, backend)
       IN  /\ mcp_calls_log' = resumed.log
           /\ calls' = Append(calls, Invocation(pending.tool, pending.arguments,
                                                EndOf(resumed), resumed.ret))
           /\ workflow_log' = step.wlog
           /\ llm_prompts' = step.prompts
           /\ Return(step.result)
    /\ UNCHANGED <<session, hf_client, query, category, confidence, template,
                   description, ran, nqueries, qstart, nfaults, min_vars,
                   gen_vars, conc_vars>>

\* rag_agent.py:365-414
SearchReturns(outcome, backend) ==
    /\ pc = "search_knowledge"
    /\ LET resumed == Resumed(outcome)
       IN  /\ \E order \in SourceOrders(resumed.ret) :
                  LET step == he_after_search(resumed.ret, query, hf_client,
                                              backend, order)
                  IN  /\ llm_prompts' = step.prompts
                      /\ Return(step.result)
           /\ mcp_calls_log' = resumed.log
           /\ calls' = Append(calls, Invocation(pending.tool, pending.arguments,
                                                EndOf(resumed), resumed.ret))
    /\ UNCHANGED <<session, hf_client, query, workflow_log, category,
                   confidence, template, description, ran, nqueries, qstart,
                   nfaults,
                   min_vars, gen_vars, conc_vars>>

Next ==
    \/ Connect
    \/ \E q \in Queries : ProcessQuery(q)
    \/ \E outcome \in ToolAnswers("classify_query") : ClassifyReturns(outcome)
    \/ \E outcome \in ToolAnswers("get_query_template") :
           TemplateReturns(outcome)
    \/ \E outcome \in ToolAnswers("get_knowledge_for_query") :
           \E backend \in Backends : KnowledgeReturns(outcome, backend)
    \/ \E outcome \in ToolAnswers("search_knowledge") :
           \E backend \in Backends : SearchReturns(outcome, backend)

Spec == Init /\ [][Next]_vars

(***************************************************************************)
(* SpecLive: process_query where every awaited tool call returns or raises *)
(* in the end.  The generation call is a plain call inside the step that   *)
(* follows the last tool call.  Each tool answers one of the faults or its *)
(* plain answer, the backend raises or answers a JSON object.              *)
(***************************************************************************)
LiveAnswers(tool_name) ==
    ToolFaults \cup
    { CASE tool_name = "classify_query" ->
               JsonAnswer([suggested_query |-> S("account_security"),
                           confidence |-> N(85)])
        [] tool_name = "get_query_template" ->
               JsonAnswer([template |-> S("Security help. Q: {query} Docs: {knowledge}"),
                           description |-> S("Account security")])
        [] tool_name = "get_knowledge_for_query" ->
               JsonAnswer([knowledge |-> T("kb:password reset", 900),
                           sources |-> L(<<S("security.pdf")>>)])
        [] tool_name = "search_knowledge" ->
               JsonAnswer([matches |->
                   L(<<Match(T("doc:about", 300), S("about.pdf"))>>)]) }

LiveBackends ==
    { Raise("401 Unauthorized"),
      Content(J(D([response |-> S("Open Settings and choose Reset."),
                   action_needed |-> S("none"),
                   confidence |-> N(90)]))) }

\* an awaited call_tool returns or raises, and the coroutine runs on
ToolReturns ==
    \/ \E outcome \in LiveAnswers("classify_query") : ClassifyReturns(outcome)
    \/ \E outcome \in LiveAnswers("get_query_template") :
           TemplateReturns(outcome)
    \/ \E outcome \in LiveAnswers("get_knowledge_for_query") :
           \E backend \in LiveBackends : KnowledgeReturns(outcome, backend)
    \/ \E outcome \in LiveAnswers("search_knowledge") :
           \E backend \in LiveBackends : SearchReturns(outcome, backend)

NextLive ==
    \/ Connect
    \/ \E q \in Queries : ProcessQuery(q)
    \/ ToolReturns

SpecLive == Init /\ [][NextLive]_vars /\ WF_vars(ToolReturns)

(***************************************************************************)
(* SpecLog: a caller awaits OmniTechAgent.call_tool (rag_agent.py:176-204) *)
(* over and over, each call complete before the next.  The caller          *)
(* alternates between two tools; at most MaxFaults calls end otherwise     *)
(* than in a plain successful answer.                                      *)
(***************************************************************************)
\* further answers of a tool: a payload without text, a text that holds
\* "Error" in capitals, a good answer whose content mentions an error
LogFaults ==
    ToolFaults \cup
    { Envelope(<<ImagePayload>>),
      Envelope(<<TextPayload(S("Internal Server Error"))>>),
      JsonAnswer([matches |->
          L(<<Match(S("Internal Server Error"), S("faq.pdf"))>>)]) }

PlainAnswers ==
    { JsonAnswer([matches |->
          L(<<Match(T("doc:about", 300), S("about.pdf"))>>)]) }

LogTool(n) == IF n % 2 = 0 THEN "search_knowledge" ELSE "classify_query"

LogArguments(tool_name) ==
    IF tool_name = "search_knowledge"
    THEN [query |-> Q(Q_TellMe), max_results |-> N(5)]
    ELSE [user_query |-> Q(Q_Shipment)]

CallTool(outcome) ==
    /\ pc = "idle"
    /\ Len(calls) < MaxCalls
    /\ \/ outcome \in PlainAnswers /\ session # "none" /\ nfaults' = nfaults
       \/ /\ outcome \in LogFaults
          /\ nfaults < MaxFaults
          /\ nfaults' = nfaults + 1
    /\ LET tool_name == LogTool(Len(calls))
           arguments == LogArguments(tool_name)
           resumed   == call_tool_resume(mcp_calls_log, Len(calls) + 1,
                                         tool_name, arguments, outcome)
       IN  IF call_tool_raises(session)
           THEN /\ calls' = Append(calls,
                               Invocation(tool_name, arguments, "raised", None))
                /\ mcp_calls_log' = mcp_calls_log
                /\ result' = None
                /\ returned' = "raise"
           ELSE /\ calls' = Append(calls,
                               Invocation(tool_name, arguments, EndOf(resumed),
                                          resumed.ret))
                /\ mcp_calls_log' = resumed.log
                /\ result' = resumed.ret
                /\ returned' = "value"
    /\ UNCHANGED <<session, hf_client, pc, query, pending, workflow_log,
                   category, confidence, template, description, ran,
                   llm_prompts, nqueries, qstart, min_vars, gen_vars, conc_vars>>

NextLog ==
    \/ Connect
    \/ \E outcome \in PlainAnswers \cup LogFaults : CallTool(outcome)

SpecLog == Init /\ [][NextLog]_vars

(***************************************************************************)
(* The minimal agent, rag_agent_minimal.py.                                *)
(***************************************************************************)
\* rag_agent_minimal.py:218
EmailWords ==
    { <<"e","m","a","i","l">>,
      <<"c","o","n","v","e","r","s","a","t","i","o","n">>,
      <<"t","i","c","k","e","t">>,
      <<"s","u","p","p","o","r","t"," ","h","i","s","t","o","r","y">> }

\* rag_agent_minimal.py:237
OrderWords ==
    { <<"o","r","d","e","r">>,
      <<"s","h","i","p","p","i","n","g">>,
      <<"d","e","l","i","v","e","r","y">>,
      <<"t","r","a","c","k","i","n","g">>,
      <<"o","r","d","-">> }

Digits == {"0","1","2","3","4","5","6","7","8","9"}

\* the class [\w\.-] of the e-mail pattern
AddressChars == WordChars \cup {".", "-"}

\* rag_agent_minimal.py:218
WantsEmails(message) ==
    \/ \E w \in EmailWords : Contains(Lower(message), w)
    \/ Contains(message, <<"@">>)

\* rag_agent_minimal.py:237
WantsOrders(message) ==
    \E w \in OrderWords : Contains(Lower(message), w)

\* the end of the longest run of characters of class cs that starts at i
\* (i - 1 when s[i] is not of the class)
RunEnd(s, i, cs) ==
    CHOOSE e \in (i - 1)..Len(s) :
        /\ \A k \in i..e : s[k] \in cs
        /\ e = Len(s) \/ s[e + 1] \notin cs

\* re.search(r'[\w\.-]+@[\w\.-]+', s) matches from position i
AddressAt(s, i) ==
    LET j == RunEnd(s, i, AddressChars)
    IN  /\ j >= i
        /\ j + 2 <= Len(s)
        /\ s[j + 1] = "@"
        /\ s[j + 2] \in AddressChars

\* re.search(r'ORD-\d+', s, re.IGNORECASE) matches from position i
OrderIdAt(s, i) ==
    /\ StartsAt(Lower(s), i, <<"o","r","d","-">>)
    /\ i + 4 <= Len(s)
    /\ s[i + 4] \in Digits

First(set) == CHOOSE i \in set : \A k \in set : i <= k

\* rag_agent_minimal.py:225-226
email_search_query(message) ==
    LET starts == {i \in 1..Len(message) : AddressAt(message, i)}
    IN  IF starts = {}
        THEN message
        ELSE LET i == First(starts)
                 j == RunEnd(message, i, AddressChars)
             IN  SubSeq(message, i, RunEnd(message, j + 2, AddressChars))

\* rag_agent_minimal.py:244-245
order_search_query(message) ==
    LET starts == {i \in 1..Len(message) : OrderIdAt(message, i)}
    IN  IF starts = {}
        THEN message
        ELSE LET i == First(starts)
             IN  SubSeq(message, i, RunEnd(message, i + 4, Digits))

\* the messages sent to the minimal agent
M_Hi == <<"H","i">>

M_Order == <<"O","r","d","e","r"," ","O","R","D","-","7"," ","f","o","r"," ","b","o","@","x",".","i","o">>

Messages == {M_Hi, M_Order}

\* what mcp_session.call_tool may do for the minimal agent
MinAnswers ==
    { Raise("Connection closed"),
      Envelope(<<TextPayload(T("tool text", 200))>>) }

\* what chat_completion may do for the minimal agent
MinBackends ==
    { Raise("401 Unauthorized"),
      Content(None),
      Content(J(D([response |-> S("Open Settings and choose Reset."),
                   action_needed |-> S("none"),
                   confidence |-> N(90)]))),
      Content(J(N(42))),
      Content(T("a long free-text answer", 800)) }

\* rag_agent_minimal.py:122-126
NotConfiguredJson ==
    J(D([response |-> S("I found relevant information in our knowledge base. However, the AI model is not configured. Please set HF_TOKEN to get AI-generated responses."),
         action_needed |-> S("none"), confidence |-> N(50)]))

\* rag_agent_minimal.py:146-150
MinWarmingUpJson ==
    J(D([response |-> S("The AI model is warming up. Please try again in a moment (this can take 20-30 seconds for the first request)."),
         action_needed |-> S("none"), confidence |-> N(50)]))

\* rag_agent_minimal.py:153-157
ApologyJson ==
    J(D([response |-> S("I encountered an error generating a response. Please try again."),
         action_needed |-> S("none"), confidence |-> N(30)]))

\* rag_agent_minimal.py:109-157.  The message content is returned as it is,
\* None included
min_query_llm(client, backend) ==
    IF ~client
    THEN NotConfiguredJson
    ELSE IF backend.k = "content"
         THEN backend.content
         ELSE IF backend.msg \in TransientErrors
              THEN MinWarmingUpJson
              ELSE ApologyJson

\* the characters re.sub(r'```(?:json)?|```', '', text).strip() removes: the
\* fence markers and the line breaks next to them
FenceChars(kind) ==
    CASE kind = "fenced_json" -> 12
      [] kind = "fenced" -> 8
      [] OTHER -> 0

\* rag_agent_minimal.py:336
strip_fences(text) ==
    IF text.t = "mixed"
    THEN X("inline", text.s, text.val, text.len - FenceChars(text.kind))
    ELSE text

\* a dict or list none of whose members is a dict or holds one
IsFlat(v) ==
    CASE v.t = "dict" ->
            \A k \in DOMAIN v.d :
                /\ v.d[k].t # "dict"
                /\ v.d[k].t = "list" =>
                       \A i \in 1..Len(v.d[k].items) :
                           v.d[k].items[i].t # "dict"
      [] OTHER -> TRUE

\* the JSON text of the flat dict shows "response" in double quotes: as a
\* key, or as a string member
QuotedResponse(v) ==
    \/ "response" \in DOMAIN v.d
    \/ \E k \in DOMAIN v.d : v.d[k] = S("response")

\* rag_agent_minimal.py:326, r'\{[^{}]*"response"[^{}]*\}': the brace-delimited
\* stretches of the JSON text of v that hold no further brace and show
\* "response" in double quotes
RECURSIVE FlatResponseItems(_)
FlatResponseItems(v) ==
    CASE v.t = "dict" ->
            IF IsFlat(v)
            THEN IF QuotedResponse(v) THEN {v} ELSE {}
            ELSE UNION {FlatResponseItems(v.d[k]) : k \in DOMAIN v.d}
      [] v.t = "list" ->
            UNION {FlatResponseItems(v.items[i]) : i \in 1..Len(v.items)}
      [] v.t = "broken" -> IF v.quoted THEN {v} ELSE {}
      [] OTHER -> {}

\* rag_agent_minimal.py:318-323: the fenced block, r'```(?:json)?\s*(\{.*?\})\s*```'.
\* The group opens with a brace, so a fenced list is no match; a match that
\* is not valid JSON is passed over.  None when the strategy gives nothing
fenced_object(text) ==
    IF /\ text.t = "mixed"
       /\ text.kind \in {"fenced_json", "fenced"}
       /\ text.val.t = "dict"
    THEN text.val
    ELSE None

\* rag_agent_minimal.py:325-332: the first flat item (the texts of the model
\* hold at most one)
inline_object(text) ==
    IF text.t = "mixed" /\ FlatResponseItems(text.val) # {}
    THEN LET item == CHOOSE v \in FlatResponseItems(text.val) : TRUE
         IN  IF item.t = "dict" THEN item ELSE None
    ELSE None

\* rag_agent_minimal.py:334-341
plain_fallback(llm_response) ==
    D([response      |-> Slice(strip_fences(llm_response), RESPONSE_CUT),
       action_needed |-> S("none"),
       confidence    |-> N(60)])

\* rag_agent_minimal.py:313-341.  [exc, val]: the exception that leaves the
\* parse step ("" for none) and the parsed result.  The strategies are tried
\* in order; each later one runs only while result is None
min_parse(llm_response) ==
    LET loaded == json_loads(llm_response)
    IN  IF loaded.ok
        THEN [exc |-> "", val |-> loaded.val]
        ELSE IF loaded.exc # "JSONDecodeError"
        THEN [exc |-> loaded.exc, val |-> None]
        ELSE IF fenced_object(llm_response) # None
        THEN [exc |-> "", val |-> fenced_object(llm_response)]
        ELSE IF inline_object(llm_response) # None
        THEN [exc |-> "", val |-> inline_object(llm_response)]
        ELSE [exc |-> "", val |-> plain_fallback(llm_response)]

\* a truncation that keeps the oldest turns
TruncateHistory_head(history) ==
    IF Len(history) > max_history
    THEN SubSeq(history, 1, max_history)
    ELSE history

\* rag_agent_minimal.py:352-353
TruncateHistory(history) ==
    IF Len(history) > max_history
    THEN SubSeq(history, Len(history) - max_history + 1, Len(history))
    ELSE history

\* a section that is written whether or not there is a turn to show
history_section_always(history) ==
    LET recent == TruncateHistory(history)
    IN  F("\nPrevious Conversation:\n{}\n",
          [i \in 1..(2 * Len(recent)) |->
              IF i % 2 = 1
              THEN F("Customer: {}", <<recent[(i + 1) \div 2].user>>)
              ELSE F("Agent: {}", <<recent[i \div 2].assistant>>)])

\* rag_agent_minimal.py:264-270 and :298-300
history_section(history) ==
    IF history = <<>>
    THEN S("")
    ELSE LET recent == TruncateHistory(history)
         IN  F("\nPrevious Conversation:\n{}\n",
               [i \in 1..(2 * Len(recent)) |->
                   IF i % 2 = 1
                   THEN F("Customer: {}", <<recent[(i + 1) \div 2].user>>)
                   ELSE F("Agent: {}", <<recent[i \div 2].assistant>>)])

\* rag_agent_minimal.py:263-361: the prompt, query_llm, the parse step and
\* the history.  [exc, val, history, prompt]
min_generate(message, docs, context, history, client, backend) ==
    LET full_prompt  == F("system_prompt.format",
                          <<docs, F("+=", context), history_section(history),
                            Q(message)>>)
        llm_response == min_query_llm(client, backend)
        parsed       == min_parse(llm_response)
    IN  IF parsed.exc # ""
        THEN [exc |-> parsed.exc, val |-> None, history |-> history,
              prompt |-> full_prompt]
        ELSE IF GetRaises(parsed.val)
        THEN [exc |-> "AttributeError", val |-> None, history |-> history,
              prompt |-> full_prompt]
        ELSE LET final_response ==
                     Get(parsed.val.d, "response",
                         S("I'm sorry, I couldn't generate a proper response."))
             IN  [exc     |-> "",
                  val     |-> final_response,
                  history |-> TruncateHistory(Append(history,
                                  [user      |-> Q(message),
                                   assistant |-> final_response])),
                  prompt  |-> full_prompt]

\* result.content[0].text raises (no payload, or a payload without text)
PayloadRaises(outcome) ==
    \/ outcome.k = "raise"
    \/ outcome.content = <<>>
    \/ outcome.content[1].type # "text"

NoDocs == S("No relevant documentation found.")

\* rag_agent_minimal.py:77-96
MinConnect ==
    /\ m_pc = "idle"
    /\ mcp_session = "none"
    /\ mcp_session' = "open"
    /\ UNCHANGED <<agent_vars, task_vars, ghost_vars, gen_vars, conc_vars, conversation_history,
                   m_pc, m_message, m_pending, m_docs, m_context, m_result,
                   m_returned, m_prompt, nturns>>

\* rag_agent_minimal.py:71-75, called between two queries
ClearHistory ==
    /\ m_pc = "idle"
    /\ conversation_history' = <<>>
    /\ UNCHANGED <<agent_vars, task_vars, ghost_vars, gen_vars, conc_vars, mcp_session, m_pc,
                   m_message, m_pending, m_docs, m_context, m_result,
                   m_returned, m_prompt, nturns>>

\* the tool call query() awaits after the calls up to `after`, or "generate"
MinStage(message, after) ==
    CASE after = "start" -> "classify_query"
      [] after = "classify_query" -> "search_knowledge"
      [] after = "search_knowledge" ->
            IF WantsEmails(message) THEN "search_emails"
            ELSE IF WantsOrders(message) THEN "search_orders"
            ELSE "generate"
      [] after = "search_emails" ->
            IF WantsOrders(message) THEN "search_orders" ELSE "generate"
      [] OTHER -> "generate"

\* the query argument of the tool call of a stage
MinArgument(message, stage) ==
    CASE stage = "search_emails" -> Q(email_search_query(message))
      [] stage = "search_orders" -> Q(order_search_query(message))
      [] OTHER -> Q(message)

\* query() goes on after a tool call: to the next await, or through the
\* generation to its end
MinProceed(message, after, docs, context, backend) ==
    LET stage == MinStage(message, after)
    IN  IF stage # "generate"
        THEN /\ m_pc' = stage
             /\ m_pending' = [tool |-> stage,
                              arguments |->
                                  [query |-> MinArgument(message, stage)]]
             /\ m_docs' = docs
             /\ m_context' = context
             /\ UNCHANGED <<conversation_history, m_result, m_returned,
                            m_prompt>>
        ELSE LET g == min_generate(message, docs, context,
                                   conversation_history, hf_client, backend)
             IN  /\ m_pc' = "idle"
                 /\ m_pending' = None
                 /\ m_docs' = None
                 /\ m_context' = <<>>
                 /\ conversation_history' = g.history
                 /\ m_result' = g.val
                 /\ m_returned' = IF g.exc = "" THEN "value" ELSE "raise"
                 /\ m_prompt' = g.prompt

\* rag_agent_minimal.py:159-361, query() up to its first await.  Without a
\* session every tool call raises AttributeError inside its try block, and
\* query() runs through to its end without a suspension
MinQuery(message, backend) ==
    /\ m_pc = "idle"
    /\ nturns < MaxTurns
    /\ nturns' = nturns + 1
    /\ m_message' = message
    /\ IF mcp_session = "none"
       THEN MinProceed(message, "search_orders", NoDocs, <<>>, backend)
       ELSE /\ m_pc' = "classify_query"
            /\ m_pending' = [tool |-> "classify_query",
                             arguments |-> [query |-> Q(message)]]
            /\ m_docs' = None
            /\ m_context' = <<>>
            /\ m_result' = None
            /\ m_returned' = "none"
            /\ m_prompt' = None
            /\ UNCHANGED conversation_history
    /\ UNCHANGED <<agent_vars, task_vars, ghost_vars, gen_vars, conc_vars, mcp_session>>

\* rag_agent_minimal.py:180-189: workflow_type and category are only printed
MinClassifyReturns(outcome, backend) ==
    /\ m_pc = "classify_query"
    /\ MinProceed(m_message, "classify_query", m_docs, m_context, backend)
    /\ UNCHANGED <<agent_vars, task_vars, ghost_vars, gen_vars, conc_vars, mcp_session, m_message,
                   nturns>>

\* rag_agent_minimal.py:202-208
MinSearchReturns(outcome, backend) ==
    /\ m_pc = "search_knowledge"
    /\ MinProceed(m_message, "search_knowledge",
                  IF PayloadRaises(outcome) THEN NoDocs
                  ELSE outcome.content[1].text,
                  m_context, backend)
    /\ UNCHANGED <<agent_vars, task_vars, ghost_vars, gen_vars, conc_vars, mcp_session, m_message,
                   nturns>>

\* rag_agent_minimal.py:223-234
MinEmailsReturns(outcome, backend) ==
    /\ m_pc = "search_emails"
    /\ MinProceed(m_message, "search_emails", m_docs,
                  IF PayloadRaises(outcome) THEN m_context
                  ELSE Append(m_context,
                              F("\n\nCustomer Email History:\n{}\n",
                                <<outcome.content[1].text>>)),
                  backend)
    /\ UNCHANGED <<agent_vars, task_vars, ghost_vars, gen_vars, conc_vars, mcp_session, m_message,
                   nturns>>

\* rag_agent_minimal.py:242-253
MinOrdersReturns(outcome, backend) ==
    /\ m_pc = "search_orders"
    /\ MinProceed(m_message, "search_orders", m_docs,
                  IF PayloadRaises(outcome) THEN m_context
                  ELSE Append(m_context,
                              F("\n\nOrder Information:\n{}\n",
                                <<outcome.content[1].text>>)),
                  backend)
    /\ UNCHANGED <<agent_vars, task_vars, ghost_vars, gen_vars, conc_vars, mcp_session, m_message,
                   nturns>>

NextMin ==
    \/ MinConnect
    \/ ClearHistory
    \/ \E message \in Messages : \E backend \in MinBackends :
           MinQuery(message, backend)
    \/ \E outcome \in MinAnswers : \E backend \in MinBackends :
           MinClassifyReturns(outcome, backend)
    \/ \E outcome \in MinAnswers : \E backend \in MinBackends :
           MinSearchReturns(outcome, backend)
    \/ \E outcome \in MinAnswers : \E backend \in MinBackends :
           MinEmailsReturns(outcome, backend)
    \/ \E outcome \in MinAnswers : \E backend \in MinBackends :
           MinOrdersReturns(outcome, backend)

SpecMin == Init /\ [][NextMin]_vars

(***************************************************************************)
(* Properties.                                                             *)
(***************************************************************************)
\* the keys of a result record; a result that is no record has none
Fields(r) == IF r.t = "dict" THEN DOMAIN r.d ELSE {}

MandatoryFields == {"response", "action_needed", "confidence"}

LastCall == calls[Len(calls)]

\* every keyword of every category
AllKeywords ==
    UNION { {SUPPORT_KEYWORDS[c].keywords[k] :
                k \in 1..Len(SUPPORT_KEYWORDS[c].keywords)} :
            c \in 1..Len(SUPPORT_KEYWORDS) }

\* the submitted texts whose lower-cased form holds a keyword
KeywordTexts ==
    {q \in Queries : \E kw \in AllKeywords : Contains(Lower(q), kw)}

\* the submitted texts whose lower-cased form matches a help-seeking pattern
PatternTexts ==
    {q \in Queries :
        \/ \E p \in 1..Len(LiteralPatterns) :
               Contains(Lower(q), LiteralPatterns[p])
        \/ MatchMyNoun(Lower(q))}

ClassificationTools ==
    {"classify_query", "get_query_template", "get_knowledge_for_query"}

\* C1: every result process_query returns, on every exit path, holds the
\* fields response, action_needed and confidence.
C1_MandatoryFields ==
    returned = "value" => MandatoryFields \subseteq Fields(result)

\* C2: no call of the minimal agent's query() ends by raising, whatever the
\* tools and the generation backend answer.  (process_query of OmniTechAgent
\* wraps both workflows in try/except and always returns; query() does not.)
C2_QueryNeverRaises == m_returned # "raise"

\* C3: mcp_calls_log never holds more than 20 records, and once more than
\* 20 calls of call_tool have been made it holds the records of the 20 most
\* recent calls, oldest first.
C3_LogHoldsLatestCalls ==
    /\ Len(mcp_calls_log) <= LOG_CAP
    /\ Len(calls) > LOG_CAP =>
           /\ Len(mcp_calls_log) = LOG_CAP
           /\ \A i \in 1..LOG_CAP :
                  LET n == Len(calls) - LOG_CAP + i
                  IN  /\ mcp_calls_log[i].timestamp = n
                      /\ mcp_calls_log[i].tool = calls[n].tool
                      /\ mcp_calls_log[i].arguments = calls[n].arguments

\* the step ends a query() call that returns its answer
Answered ==
    /\ m_pc' = "idle"
    /\ m_returned' = "value"
    /\ (m_pc # "idle" \/ nturns' # nturns)

\* C4: conversation_history never holds more than 3 turns.  A query() that
\* returns appends its turn last; if the history was full the oldest turn
\* goes and the others keep their order.  Nothing else changes the history
\* but clear_history, which empties it.
C4_HistoryFifo ==
    [][ /\ Len(conversation_history') <= max_history
        /\ IF Answered
           THEN LET turn == [user |-> Q(m_message'), assistant |-> m_result']
                IN  conversation_history' =
                        IF Len(conversation_history) < max_history
                        THEN Append(conversation_history, turn)
                        ELSE Tail(conversation_history) \o <<turn>>
           ELSE conversation_history' \in {conversation_history, <<>>}
      ]_vars

\* a query() has returned whose prompt showed three earlier turns, the
\* first of which is gone from the history while the second now leads it
C4_OldestEvicted ==
    /\ m_pc = "idle"
    /\ m_returned = "value"
    /\ Len(conversation_history) = max_history
    /\ m_prompt.t = "fstr"
    /\ LET shown == m_prompt.args[3]
       IN  /\ shown.t = "fstr"
           /\ Len(shown.args) = 2 * max_history
           /\ shown.args[3].args[1] = conversation_history[1].user
           /\ shown.args[4].args[1] = conversation_history[1].assistant
           /\ shown.args[2].args[1] # conversation_history[1].assistant

\* C5: process_query enters the Classification workflow exactly when the
\* lower-cased query holds a keyword or matches a help-seeking pattern, and
\* the Direct-RAG workflow otherwise; it enters one workflow only, and which
\* one is fixed by the query text, whatever the state of the agent.
C5_RoutingByText ==
    nqueries > 0 =>
        LET support == query \in KeywordTexts \cup PatternTexts
        IN  /\ ran = {IF support THEN "classification" ELSE "direct_rag"}
            /\ pc # "idle" =>
                   /\ pending.tool = pc
                   /\ support <=> pc \in ClassificationTools
                   /\ ~support <=> pc = "search_knowledge"

\* a keyword found only after lower-casing has led into the Classification
\* workflow, which has gone on past its first step
C5_KeywordRouted ==
    /\ query = Q_Shipment
    /\ ran = {"classification"}
    /\ pc = "get_query_template"

\* the invocations of call_tool for the classification tool
ClassifyCalls == {i \in 1..Len(calls) : calls[i].tool = "classify_query"}

\* C7: for a query that holds a support keyword, process_query invokes
\* call_tool for the classification tool, and the user_query argument is the
\* text it was given, character for character.
C7_UnmodifiedArgument ==
    (nqueries > 0 /\ query \in KeywordTexts) =>
        IF pc = "classify_query"
        THEN pending = [tool |-> "classify_query",
                        arguments |-> [user_query |-> Q(query)]]
        ELSE /\ ClassifyCalls # {}
             /\ LET last == CHOOSE i \in ClassifyCalls :
                                \A k \in ClassifyCalls : k <= i
                IN  calls[last].arguments = [user_query |-> Q(query)]

\* the classification tool has been reached with a text that lower-casing
\* would change
C7_CapitalisedTextClassified ==
    /\ query = Q_Shipment
    /\ Lower(query) # query
    /\ calls # <<>>
    /\ LastCall.tool = "classify_query"
    /\ LastCall.end = "logged"
    /\ LastCall.arguments = [user_query |-> Q(Q_Shipment)]

\* C6: every result process_query returns names the workflow the query was
\* routed to in its workflow field.
C6_WorkflowField ==
    returned = "value" =>
        /\ "workflow" \in Fields(result)
        /\ result.d["workflow"] \in {S(w) : w \in ran}

\* the classification call was the last call made and it failed: the
\* transport raised, or the tool answered an error payload
ClassificationFailed ==
    /\ calls # <<>>
    /\ LastCall.tool = "classify_query"
    /\ \/ LastCall.end = "error_payload"
       \/ /\ LastCall.end = "logged"
          /\ "error" \in Fields(LastCall.ret)

\* C8: when the classification call fails, the Classification workflow
\* returns a result that has an error field and the three mandatory fields.
C8_FailureResult ==
    (pc = "idle" /\ returned = "value" /\ ClassificationFailed) =>
        ({"error"} \cup MandatoryFields) \subseteq Fields(result)

\* the value of a search that found nothing
ZeroMatches(search_result) ==
    /\ search_result.t = "dict"
    /\ Get(search_result.d, "matches", L(<<>>)) = L(<<>>)

\* C9: when the search of the Direct-RAG workflow finds no match, the result
\* holds the fixed not-found text, its sources are empty, and query_llm was
\* not called during the process_query call.
C9_NoMatchNoGeneration ==
    ( /\ pc = "idle"
      /\ returned = "value"
      /\ ran = {"direct_rag"}
      /\ calls # <<>>
      /\ LastCall.tool = "search_knowledge"
      /\ LastCall.end = "logged"
      /\ ZeroMatches(LastCall.ret) ) =>
        /\ {"response", "sources"} \subseteq Fields(result)
        /\ result.d["response"] =
               S("I couldn't find relevant information. Please try rephrasing.")
        /\ result.d["sources"] = L(<<>>)
        /\ llm_prompts = <<>>

\* a search with a configured backend has answered an empty match list
C9_EmptySearchReturned ==
    /\ hf_client
    /\ pc = "idle"
    /\ returned = "value"
    /\ ran = {"direct_rag"}
    /\ calls # <<>>
    /\ LastCall.tool = "search_knowledge"
    /\ LastCall.ret = D([matches |-> L(<<>>)])

\* C10: no call of call_tool ends by raising, in any state of the agent.
C10_CallToolNeverRaises == returned # "raise"

(***************************************************************************)
(* SpecGen: one generation in each of the three methods that generate,     *)
(* from the call of query_llm through the parse step to the value the      *)
(* method returns.  The credential and the behaviour of the backend are    *)
(* drawn at the start; the retrieval results the workflows hold when they  *)
(* reach the generation are fixed.                                         *)
(***************************************************************************)
\* handle_support_query, handle_exploratory_query (rag_agent.py) and query()
\* (rag_agent_minimal.py)
GenAgents == {"support", "exploratory", "minimal"}

\* the object of the fenced example: response "ok", confidence 0.9
OkObject ==
    D([response |-> S("ok"), action_needed |-> S("none"), confidence |-> N(90)])

\* what chat_completion may do: raise, or return a completion whose message
\* content is absent, JSON text, or text that is not JSON as a whole
GenBackends ==
    { Raise("503 Service Unavailable"),
      Raise("Model is loading"),
      Raise("Loading checkpoint shards"),
      Raise("401 Unauthorized"),
      Content(None),
      Content(J(D([response |-> S("Open Settings and choose Reset."),
                   action_needed |-> S("none"),
                   confidence |-> N(90)]))),
      Content(J(D([answer |-> S("Open Settings.")]))),
      Content(J(D([response |-> SENTINEL, action_needed |-> S("none"),
                   confidence |-> N(40)]))),
      Content(J(N(42))),
      Content(T("a long free-text answer", 800)),
      Content(T("a short free-text answer", 120)),
      Content(X("fenced_json", "fenced example", OkObject, 69)),
      Content(X("fenced", "fenced answer", D([answer |-> S("Open Settings.")]), 40)),
      Content(X("fenced_json", "fenced list", L(<<OkObject>>), 82)),
      Content(X("fenced_json", "fenced broken object", Broken(TRUE), 700)),
      Content(X("inline", "prose around a long response",
                D([response |-> T("a long response", 600),
                   confidence |-> N(90)]), 680)),
      Content(X("inline", "prose around a nested object",
                D([response |-> S("ok"), meta |-> D([a |-> N(1)])]), 60)) }

\* rag_agent.py:210-221 and rag_agent_minimal.py:120-130: chat_completion is
\* called only with a client
backend_called(client) == client

\* what the workflows hold when they reach the generation
GenKnowledgeInfo ==
    D([knowledge |-> T("kb:password reset", 900),
       sources   |-> L(<<S("security.pdf")>>)])

GenSearchResult ==
    D([matches |->
          L(<<Match(T("doc:about", 300), S("about.pdf")),
              Match(T("doc:returns", 300), S("returns.pdf"))>>)])

GenWorkflowLog ==
    <<S("[1/4] Classifying query..."), S("[2/4] Getting template..."),
      S("[3/4] Retrieving knowledge for account_security...")>>

InitGen ==
    /\ AgentInit /\ TaskInit /\ GhostInit /\ MinInit /\ ConcOff
    /\ g_pc = "prompted"
    /\ g_agent \in GenAgents
    /\ g_backend \in GenBackends
    /\ g_called = FALSE
    /\ g_text = None
    /\ g_parsed = None
    /\ g_result = None

\* rag_agent.py:319 and :397, rag_agent_minimal.py:308
GenQueryLlm ==
    /\ g_pc = "prompted"
    /\ g_pc' = "generated"
    /\ g_called' = backend_called(hf_client)
    /\ g_text' = IF g_agent = "minimal"
                 THEN min_query_llm(hf_client, g_backend)
                 ELSE query_llm(hf_client, g_backend)
    /\ UNCHANGED <<agent_vars, task_vars, ghost_vars, min_vars, conc_vars, g_agent,
                   g_backend, g_parsed, g_result>>

\* rag_agent.py:322-329 and :399-406, rag_agent_minimal.py:313-341
GenParse ==
    /\ g_pc = "generated"
    /\ g_pc' = "parsed"
    /\ g_parsed' = IF g_agent = "minimal"
                   THEN min_parse(g_text)
                   ELSE [exc |-> "", val |-> parse_generated(g_text)]
    /\ UNCHANGED <<agent_vars, task_vars, ghost_vars, min_vars, conc_vars, g_agent,
                   g_backend, g_called, g_text, g_result>>

\* the exception that left a method
Raised(exc) == [t |-> "raised", exc |-> exc]

\* rag_agent.py:331-357 and :408-422, rag_agent_minimal.py:344-361: the
\* method goes on from the parsed result to its return
GenReturn ==
    /\ g_pc = "parsed"
    /\ g_pc' = "returned"
    /\ CASE g_agent = "support" ->
              g_result' = hs_after_knowledge(GenKnowledgeInfo, Q_Shipment,
                              S("account_security"), N(85),
                              S("Security help. Q: {query} Docs: {knowledge}"),
                              S("Account security"), GenWorkflowLog,
                              hf_client, g_backend).result
         [] g_agent = "exploratory" ->
              \E order \in SourceOrders(GenSearchResult) :
                  g_result' = he_after_search(GenSearchResult, Q_TellMe,
                                  hf_client, g_backend, order).result
         [] g_agent = "minimal" ->
              LET g == min_generate(M_Hi, NoDocs, <<>>, <<>>, hf_client,
                                    g_backend)
              IN  g_result' = IF g.exc = "" THEN g.val ELSE Raised(g.exc)
    /\ UNCHANGED <<agent_vars, task_vars, ghost_vars, min_vars, conc_vars, g_agent,
                   g_backend, g_called, g_text, g_parsed>>

NextGen ==
    \/ GenQueryLlm
    \/ GenParse
    \/ GenReturn

SpecGen == InitGen /\ [][NextGen]_vars

(***************************************************************************)
(* SpecConc: several coroutines run against one agent and interleave at    *)
(* their awaits.  asyncio runs one coroutine at a time and switches only   *)
(* at an await, so one action is the code from one await to the next.      *)
(* Either MaxCoroutines process_query coroutines share an OmniTechAgent    *)
(* whose log holds LOG_CAP - 1 records of earlier calls, or MaxCoroutines  *)
(* query() coroutines share a SyncAgent whose history holds                *)
(* max_history - 1 earlier turns.  The value a coroutine returns goes to   *)
(* its caller and is not kept.                                             *)
(***************************************************************************)
MaxCoroutines == 2

Coroutines == 1..MaxCoroutines

ConcQueries == {Q_TellMe, Q_Shipment}

\* the log after LOG_CAP - 1 calls of SpecLog's caller that were answered
PriorLog ==
    [n \in 1..(LOG_CAP - 1) |->
        ToolCallRecord(n, LogTool(n), LogArguments(LogTool(n)),
                       unwrap_mcp_result(CHOOSE a \in PlainAnswers : TRUE).val)]

\* the history after max_history - 1 answered queries
PriorHistory ==
    [n \in 1..(max_history - 1) |->
        [user      |-> Q(M_Hi),
         assistant |-> S("Open Settings and choose Reset.")]]

\* a coroutine that was not started yet
NewTask ==
    [pc |-> "new", query |-> <<>>, pending |-> None, wlog |-> <<>>,
     category |-> None, confidence |-> None, template |-> None,
     description |-> None, docs |-> None, context |-> <<>>]

\* a coroutine that returned; its locals are gone
Finished == [NewTask EXCEPT !.pc = "done"]

InitConc ==
    /\ TaskInit /\ GhostInit /\ GenOff
    /\ c_kind \in {"omni", "minimal"}
    /\ hf_client \in IF c_kind = "omni" THEN {TRUE} ELSE BOOLEAN
    /\ c_tasks = [i \in Coroutines |-> NewTask]
    /\ c_done = <<>>
    /\ session = IF c_kind = "omni" THEN "open" ELSE "none"
    /\ mcp_calls_log = IF c_kind = "omni" THEN PriorLog ELSE <<>>
    /\ mcp_session = IF c_kind = "minimal" THEN "open" ELSE "none"
    /\ conversation_history = IF c_kind = "minimal" THEN PriorHistory ELSE <<>>
    /\ m_pc = "idle"
    /\ m_message = <<>>
    /\ m_pending = None
    /\ m_docs = None
    /\ m_context = <<>>
    /\ m_result = None
    /\ m_returned = "none"
    /\ m_prompt = None
    /\ nturns = 0

\* rag_agent.py:426-438 up to the first await of the chosen workflow
ConcProcessQuery(i, q) ==
    /\ c_kind = "omni"
    /\ c_tasks[i].pc = "new"
    /\ LET support   == is_support_query(q)
           tool_name == IF support THEN "classify_query" ELSE "search_knowledge"
           arguments == IF support
                        THEN classify_arguments(q)
                        ELSE search_arguments(q)
       IN  c_tasks' = [c_tasks EXCEPT ![i] =
               IF call_tool_raises(session)
               THEN Finished
               ELSE [NewTask EXCEPT
                        !.pc = tool_name,
                        !.query = q,
                        !.pending = [tool |-> tool_name,
                                     arguments |-> arguments],
                        !.wlog = IF support
                                 THEN <<S("[1/4] Classifying query...")>>
                                 ELSE <<>>]]
    /\ UNCHANGED <<agent_vars, task_vars, ghost_vars, min_vars, gen_vars,
                   c_kind, c_done>>

\* rag_agent.py:270-294 and :371-377: the coroutine after its call_tool
\* returned ret, at its next await or at its end
ConcAfter(task, ret) ==
    CASE task.pc = "classify_query" ->
            LET step == hs_after_classify(ret, task.wlog)
            IN  IF step.ret
                THEN Finished
                ELSE [task EXCEPT
                         !.pc = "get_query_template",
                         !.pending = [tool |-> "get_query_template",
                                      arguments |->
                                          [query_name |-> step.category]],
                         !.wlog = step.wlog,
                         !.category = step.category,
                         !.confidence = step.confidence]
      [] task.pc = "get_query_template" ->
            LET step == hs_after_template(ret, task.category, task.confidence,
                                          task.wlog)
            IN  IF step.ret
                THEN Finished
                ELSE [task EXCEPT
                         !.pc = "get_knowledge_for_query",
                         !.pending = [tool |-> "get_knowledge_for_query",
                                      arguments |->
                                          [category |-> task.category,
                                           query |-> Q(task.query),
                                           max_results |-> N(3)]],
                         !.wlog = step.wlog,
                         !.template = step.template,
                         !.description = step.description]
      [] OTHER -> Finished

\* what session.call_tool may do for a tool: the transport raises (nothing
\* is logged), the text is no JSON, or the tool gives its plain answer
ConcAnswers(tool_name) ==
    { Raise("Connection closed"),
      Envelope(<<TextPayload(S("tool error: bad input"))>>) }
    \cup (LiveAnswers(tool_name) \ ToolFaults)

WorkflowTools ==
    {"classify_query", "get_query_template", "get_knowledge_for_query",
     "search_knowledge"}

\* rag_agent.py:181-204: session.call_tool returns to coroutine i, which
\* unwraps, appends, truncates and runs on, all without an await
ConcToolReturns(i, outcome) ==
    /\ c_kind = "omni"
    /\ c_tasks[i].pc \notin {"new", "done"}
    /\ outcome \in ConcAnswers(c_tasks[i].pc)
    /\ LET task    == c_tasks[i]
           stamp   == LOG_CAP + Len(c_done)
           resumed == call_tool_resume(mcp_calls_log, stamp,
                          task.pending.tool, task.pending.arguments, outcome)
       IN  /\ mcp_calls_log' = resumed.log
           /\ c_done' =
                  IF resumed.logged
                  THEN Append(c_done,
                           [task   |-> i,
                            record |-> ToolCallRecord(stamp, task.pending.tool,
                                           task.pending.arguments,
                                           unwrap_mcp_result(outcome).val)])
                  ELSE c_done
           /\ c_tasks' = [c_tasks EXCEPT ![i] = ConcAfter(task, resumed.ret)]
    /\ UNCHANGED <<session, hf_client, task_vars, ghost_vars, min_vars,
                   gen_vars, c_kind>>

\* rag_agent_minimal.py:159-189, query() up to its first await
ConcQuery(i, message) ==
    /\ c_kind = "minimal"
    /\ c_tasks[i].pc = "new"
    /\ c_tasks' = [c_tasks EXCEPT ![i] =
           [NewTask EXCEPT
               !.pc = "classify_query",
               !.query = message,
               !.pending = [tool |-> "classify_query",
                            arguments |-> [query |-> Q(message)]]]]
    /\ UNCHANGED <<agent_vars, task_vars, ghost_vars, min_vars, gen_vars,
                   c_kind, c_done>>

\* rag_agent_minimal.py:202-253: what the returned tool call leaves in docs
\* and context
ConcDocs(task, outcome) ==
    IF task.pc = "search_knowledge"
    THEN IF PayloadRaises(outcome) THEN NoDocs ELSE outcome.content[1].text
    ELSE task.docs

ConcContext(task, outcome) ==
    IF PayloadRaises(outcome)
    THEN task.context
    ELSE CASE task.pc = "search_emails" ->
                 Append(task.context,
                        F("\n\nCustomer Email History:\n{}\n",
                          <<outcome.content[1].text>>))
           [] task.pc = "search_orders" ->
                 Append(task.context,
                        F("\n\nOrder Information:\n{}\n",
                          <<outcome.content[1].text>>))
           [] OTHER -> task.context

\* rag_agent_minimal.py:180-361: mcp_session.call_tool returns to coroutine
\* i, which runs to its next await or through the generation (a plain call)
\* and the history's append and truncation to its end
ConcMinReturns(i, outcome, backend) ==
    /\ c_kind = "minimal"
    /\ c_tasks[i].pc \notin {"new", "done"}
    /\ LET task    == c_tasks[i]
           stage   == MinStage(task.query, task.pc)
           docs    == ConcDocs(task, outcome)
           context == ConcContext(task, outcome)
       IN  IF stage # "generate"
           THEN /\ c_tasks' = [c_tasks EXCEPT ![i] =
                        [task EXCEPT
                            !.pc = stage,
                            !.pending = [tool |-> stage,
                                         arguments |->
                                             [query |-> MinArgument(task.query,
                                                                    stage)]],
                            !.docs = docs,
                            !.context = context]]
                /\ UNCHANGED <<conversation_history, c_done>>
           ELSE LET g == min_generate(task.query, docs, context,
                                      conversation_history, hf_client, backend)
                IN  /\ c_tasks' = [c_tasks EXCEPT ![i] = Finished]
                    /\ conversation_history' = g.history
                    /\ c_done' =
                           IF g.exc = ""
                           THEN Append(c_done,
                                    [task   |-> i,
                                     record |-> [user      |-> Q(task.query),
                                                 assistant |-> g.val]])
                           ELSE c_done
    /\ UNCHANGED <<agent_vars, task_vars, ghost_vars, gen_vars, mcp_session,
                   m_pc, m_message, m_pending, m_docs, m_context, m_result,
                   m_returned, m_prompt, nturns, c_kind>>

NextConc ==
    \/ \E i \in Coroutines : \E q \in ConcQueries : ConcProcessQuery(i, q)
    \/ \E i \in Coroutines : \E tool_name \in WorkflowTools :
           \E outcome \in ConcAnswers(tool_name) : ConcToolReturns(i, outcome)
    \/ \E i \in Coroutines : \E message \in Messages : ConcQuery(i, message)
    \/ \E i \in Coroutines : \E outcome \in MinAnswers :
           \E backend \in LiveBackends : ConcMinReturns(i, outcome, backend)

SpecConc == InitConc /\ [][NextConc]_vars

(***************************************************************************)
(* Properties of the call log.                                             *)
(***************************************************************************)
\* C11: every invocation of call_tool appends one record to the call log,
\* whether it ends in a result or in a transport or protocol failure: the
\* newest record is always that of the latest call, and until the cap is
\* reached there are as many records as calls.
C11_EveryCallLogged ==
    calls # <<>> =>
        /\ Len(mcp_calls_log) = Min(Len(calls), LOG_CAP)
        /\ mcp_calls_log[Len(mcp_calls_log)].timestamp = Len(calls)
        /\ mcp_calls_log[Len(mcp_calls_log)].tool = LastCall.tool

\* "error" occurs in str(x); anycase: after str(x) is lower-cased.  The text
\* of a dict or list shows its keys and items; the text of the protocol
\* envelope shows its field isError
RECURSIVE StrHasError(_, _)
StrHasError(x, anycase) ==
    LET texts == IF anycase
                 THEN {"tool error: bad input", "error", "Internal Server Error"}
                 ELSE {"tool error: bad input", "error"}
    IN  CASE x.t = "dict" ->
                \/ "error" \in DOMAIN x.d
                \/ \E k \in DOMAIN x.d : StrHasError(x.d[k], anycase)
          [] x.t = "list" ->
                \E i \in 1..Len(x.items) : StrHasError(x.items[i], anycase)
          [] x.t \in {"str", "text"} -> x.s \in texts
          [] x.t = "obj" -> anycase
          [] OTHER -> FALSE

\* C12 as stated: the success flag of a record is true exactly when the
\* stringified result of its call does not contain "error" as written.
C12_SuccessIffNoError ==
    \A i \in 1..Len(mcp_calls_log) :
        LET rec == mcp_calls_log[i]
        IN  rec.success <=> ~StrHasError(calls[rec.timestamp].ret, FALSE)

\* C12, amended: the success flag of a record is true exactly when the
\* stringified result of its call, lower-cased, does not contain "error".
C12_SuccessIffNoErrorAnyCase ==
    \A i \in 1..Len(mcp_calls_log) :
        LET rec == mcp_calls_log[i]
        IN  /\ calls[rec.timestamp].end = "logged"
            /\ rec.success <=> ~StrHasError(calls[rec.timestamp].ret, TRUE)

\* the log holds a failed record for a result that spells Error with a
\* capital, and a successful one
C12_CapitalErrorFlagged ==
    /\ \E i \in 1..Len(mcp_calls_log) :
           /\ ~mcp_calls_log[i].success
           /\ calls[mcp_calls_log[i].timestamp].ret = S("Internal Server Error")
    /\ \E i \in 1..Len(mcp_calls_log) : mcp_calls_log[i].success

(***************************************************************************)
(* Properties of the generation client and of the parse step.              *)
(***************************************************************************)
\* the generated text is text, and not valid JSON as a whole
NotJsonText(text) == text.t \in {"str", "text", "mixed"}

\* the str value holds more than n characters (the literals of the model
\* written out in full are shorter than any cut)
LongerThan(x, n) == x.t \in {"text", "mixed"} /\ x.len > n

\* the parse step has run
Parsed == g_pc \in {"parsed", "returned"}

\* C13: for every generated text that is not valid JSON as a whole, text
\* around a fenced or inline JSON object included, the parse step ends
\* without an exception in a result that holds response, action_needed and
\* confidence and whose response is at most 500 characters long.
C13_NonJsonConforms ==
    (Parsed /\ NotJsonText(g_text)) =>
        /\ g_parsed.exc = ""
        /\ MandatoryFields \subseteq Fields(g_parsed.val)
        /\ ~LongerThan(g_parsed.val.d["response"], RESPONSE_CUT)

\* the parse step of the method g_agent names, applied to text
parse_step(text) ==
    IF g_agent = "minimal"
    THEN min_parse(text)
    ELSE [exc |-> "", val |-> parse_generated(text)]

\* C14: a generated text that is a JSON object parses to that object with
\* every member unchanged and the mandatory fields present, and parsing the
\* JSON text of the parse result gives the parse result again.
C14_StructuredUnchanged ==
    (Parsed /\ g_text.t = "json" /\ g_text.val.t = "dict") =>
        /\ g_parsed.exc = ""
        /\ g_parsed.val.t = "dict"
        /\ \A k \in DOMAIN g_text.val.d :
               /\ k \in DOMAIN g_parsed.val.d
               /\ g_parsed.val.d[k] = g_text.val.d[k]
        /\ MandatoryFields \subseteq Fields(g_parsed.val)
        /\ parse_step(J(g_parsed.val)) = g_parsed

\* the text of the example: a ```json block around OkObject
FencedExample == X("fenced_json", "fenced example", OkObject, 69)

\* C15: in every method that parses generated text the strategies are tried
\* in the order whole text, fenced block, flat item with "response", plain
\* fallback, and the first that gives an object gives the result: a text
\* that is JSON as a whole parses to its value, a fenced object parses to
\* that object whatever else would match, and the ```json block around
\* {"response": "ok", "action_needed": "none", "confidence": 0.9} parses to
\* exactly that object, with confidence 0.9.
C15_FirstStrategyWins ==
    Parsed =>
        /\ g_text.t = "json" => g_parsed = [exc |-> "", val |-> g_text.val]
        /\ ( /\ g_text.t = "mixed"
             /\ g_text.kind \in {"fenced_json", "fenced"}
             /\ g_text.val.t = "dict" ) =>
               g_parsed = [exc |-> "", val |-> g_text.val]
        /\ g_text = FencedExample =>
               /\ g_parsed.val = OkObject
               /\ g_parsed.val.d["confidence"] = N(90)

\* query_llm has returned
Generated == g_pc # "prompted"

\* C16: whatever the credential and the backend do, a missing credential,
\* a backend exception and a completion without message content included,
\* the value query_llm hands to the parse step is a text string.
C16_AlwaysText == Generated => IsStr(g_text)

\* the backend was called and raised
BackendRaised == Generated /\ hf_client /\ g_backend.k = "raise"

\* the error text holds a transient marker, in any case
MatchesMarker(msg) ==
    \/ Contains(Lower(BackendErrorText(msg)), <<"5","0","3">>)
    \/ Contains(Lower(BackendErrorText(msg)), <<"l","o","a","d","i","n","g">>)

\* the text is the JSON text of an object with this confidence
JsonWithConfidence(text, c) ==
    /\ text.t = "json"
    /\ text.val.t = "dict"
    /\ MandatoryFields \subseteq DOMAIN text.val.d
    /\ text.val.d["confidence"] = N(c)

NoCredential == Generated /\ ~hf_client

\* C18: with no credential configured query_llm does not call the backend
\* and returns, whatever the backend would have done, the same JSON string,
\* whose response is the reserved sentinel and whose confidence is 0.5 or
\* 0.7.
C18_SentinelFallback ==
    NoCredential =>
        /\ ~g_called
        /\ \/ JsonWithConfidence(g_text, 50)
           \/ JsonWithConfidence(g_text, 70)
        /\ g_text.val.d["response"] = SENTINEL

\* C18, amended: with no credential configured query_llm does not call the
\* backend and returns the same JSON string on every call: in OmniTechAgent
\* the object whose response is the reserved sentinel, with confidence 0.7;
\* in SyncAgent the object whose response is the fixed "not configured"
\* message, which is not the sentinel, with confidence 0.5.
C18_FallbackPerAgent ==
    NoCredential =>
        /\ ~g_called
        /\ IF g_agent = "minimal"
           THEN /\ JsonWithConfidence(g_text, 50)
                /\ g_text.val.d["response"] =
                       S("I found relevant information in our knowledge base. However, the AI model is not configured. Please set HF_TOKEN to get AI-generated responses.")
                /\ g_text.val.d["action_needed"] = S("none")
           ELSE /\ JsonWithConfidence(g_text, 70)
                /\ g_text.val.d["response"] = SENTINEL
                /\ g_text.val.d["action_needed"] = S("none")

\* SyncAgent.query_llm has answered without a credential while the backend
\* would have returned an answer
C18_MinimalNotConfigured ==
    /\ NoCredential
    /\ g_agent = "minimal"
    /\ g_backend.k = "content"
    /\ g_backend.content.t = "json"
    /\ g_text = NotConfiguredJson

\* a workflow of OmniTechAgent has returned its result
WorkflowReturned ==
    g_pc = "returned" /\ g_agent \in {"support", "exploratory"}

\* the str value is a text cut at KNOWLEDGE_CUT characters
TruncatedKnowledge(x) ==
    \/ x.t = "text" /\ x.len <= KNOWLEDGE_CUT
    \/ x.t = "fstr" /\ x.f = "{}[:{}]" /\ x.args[2] = N(KNOWLEDGE_CUT)

\* C19: in both workflows, when the response of the parsed result is the
\* reserved sentinel the result returned has a response built from the
\* truncated knowledge text and the confidence 0.8; and no result returned
\* has the sentinel as its response.
C19_SentinelReplaced ==
    WorkflowReturned =>
        /\ Get(g_result.d, "response", None) # SENTINEL
        /\ ( /\ g_parsed.val.t = "dict"
             /\ Get(g_parsed.val.d, "response", None) = SENTINEL ) =>
               /\ g_result.d["response"].t = "fstr"
               /\ LET args == g_result.d["response"].args
                  IN  TruncatedKnowledge(args[Len(args)])
               /\ g_result.d["confidence"] = N(80)

(***************************************************************************)
(* Properties of the prompt of the minimal agent.                          *)
(***************************************************************************)
\* the step builds the prompt of a query() and runs the query to its end
PromptBuilt ==
    /\ m_pc' = "idle"
    /\ (m_pc # "idle" \/ nturns' # nturns)

\* the lines of the turns, oldest first: the customer's text, then the
\* agent's answer
TurnLines(turns) ==
    [i \in 1..(2 * Len(turns)) |->
        IF i % 2 = 1
        THEN F("Customer: {}", <<turns[(i + 1) \div 2].user>>)
        ELSE F("Agent: {}", <<turns[i \div 2].assistant>>)]

\* C20: the prompt query() builds holds a "Previous Conversation" section
\* exactly when conversation_history holds a turn when the prompt is built.
\* The section lists the stored turns, three at most, oldest first; there
\* is none in the prompt of the first query of an instance, nor in the
\* prompt of a query that finds the history empty after clear_history().
C20_HistorySection ==
    [][ PromptBuilt =>
            LET section == m_prompt'.args[3]
            IN  /\ Len(conversation_history) <= max_history
                /\ section = IF conversation_history = <<>>
                             THEN S("")
                             ELSE F("\nPrevious Conversation:\n{}\n",
                                    TurnLines(conversation_history))
                /\ nturns = 0 => section = S("")
      ]_vars

\* on an instance whose queries all return an answer, a later query has
\* built its prompt without the section, which takes a clear_history()
\* since the answer before; and the turn of that query is stored
C20_OmittedAfterClear ==
    /\ ~hf_client
    /\ m_pc = "idle"
    /\ nturns >= 2
    /\ m_returned = "value"
    /\ m_prompt.t = "fstr"
    /\ m_prompt.args[3] = S("")
    /\ Len(conversation_history) = 1

(***************************************************************************)
(* Properties of the stored turns.                                         *)
(***************************************************************************)
\* the responses of the fixed payloads query_llm of the minimal agent
\* returns when it has no credential or the backend raised
FailureResponses ==
    {NotConfiguredJson.val.d["response"],
     MinWarmingUpJson.val.d["response"],
     ApologyJson.val.d["response"]}

\* C21: a turn is stored only when a query() completes successfully.  When
\* query(m) returns r after a generation that succeeded, the turn of m and r
\* is the newest of the history and the earlier turns follow in their order
\* (the oldest gone if the history was full); a query() that raises, or
\* whose generation failed (query_llm answered a backend error, or the
\* payload for a missing credential), leaves the history as it was.
C21_TurnOnlyOnSuccess ==
    [][ PromptBuilt =>
            IF m_returned' = "value" /\ m_result' \notin FailureResponses
            THEN LET turn == [user |-> Q(m_message'), assistant |-> m_result']
                 IN  conversation_history' =
                         IF Len(conversation_history) < max_history
                         THEN Append(conversation_history, turn)
                         ELSE Tail(conversation_history) \o <<turn>>
            ELSE conversation_history' = conversation_history
      ]_vars

(***************************************************************************)
(* Properties of the order of the steps of a workflow.                     *)
(***************************************************************************)
\* the invocations of call_tool made by the current process_query
CurrentCalls == SubSeq(calls, qstart + 1, Len(calls))

\* the tool calls of the Classification workflow, in the order of the text
StepOrder ==
    <<"classify_query", "get_query_template", "get_knowledge_for_query">>

\* C22: within one handle_support_query call the tool calls are made in the
\* order classify_query, get_query_template, get_knowledge_for_query, each
\* only after the call before it has returned, and query_llm is called once,
\* after the three calls have returned; while a tool call is awaited it is
\* the only one, and no generation call has been made.
C22_StepsInOrder ==
    ran = {"classification"} =>
        /\ Len(CurrentCalls) <= Len(StepOrder)
        /\ \A i \in 1..Len(CurrentCalls) : CurrentCalls[i].tool = StepOrder[i]
        /\ pc # "idle" =>
               /\ Len(CurrentCalls) < Len(StepOrder)
               /\ pc = StepOrder[Len(CurrentCalls) + 1]
               /\ pending.tool = pc
               /\ llm_prompts = <<>>
        /\ llm_prompts # <<>> =>
               /\ Len(llm_prompts) = 1
               /\ Len(CurrentCalls) = Len(StepOrder)
               /\ pc = "idle"

\* a Classification workflow has made its three calls and the generation
C22_AllStepsDone ==
    /\ ran = {"classification"}
    /\ pc = "idle"
    /\ returned = "value"
    /\ Len(CurrentCalls) = Len(StepOrder)
    /\ \A i \in 1..Len(CurrentCalls) : CurrentCalls[i].end = "logged"
    /\ Len(llm_prompts) = 1

\* the invocation did not give its caller a record free of an error: it
\* raised, its transport or its unwrapping failed, or the tool answered raw
\* text, a value that is no record, or an error payload
CallFailed(inv) ==
    \/ inv.end \in {"raised", "error_payload"}
    \/ inv.ret.t # "dict"
    \/ "error" \in DOMAIN inv.ret.d

\* the classification call of the current Classification workflow failed
ClassifyFailedNow ==
    /\ ran = {"classification"}
    /\ CurrentCalls # <<>>
    /\ CurrentCalls[1].tool = "classify_query"
    /\ CallFailed(CurrentCalls[1])

\* in handle_support_query a failed classify_query call ends the workflow:
\* the process_query call has returned, it made no other tool call and no
\* generation call, and its result is not one of the Direct-RAG workflow
HsClassifyFailureTerminal ==
    ClassifyFailedNow =>
        /\ pc = "idle"
        /\ returned = "value"
        /\ Len(CurrentCalls) = 1
        /\ llm_prompts = <<>>
        /\ Get(result.d, "workflow", S("classification")) # S("direct_rag")

\* a query() of the minimal agent has run to its end without a session, so
\* that its classify_query call failed (rag_agent_minimal.py:181, :185)
MinClassifyFailed ==
    /\ mcp_session = "none"
    /\ nturns > 0
    /\ m_pc = "idle"

\* C23: a failed classify_query call ends the orchestration call it was
\* made in: no further tool call and no generation call follow, and the
\* call does not go on as a Direct-RAG query.  In handle_support_query this
\* is HsClassifyFailureTerminal; for query() of the minimal agent, which
\* builds its prompt only on the way to the generation call, no prompt
\* has been built when the classification failed.
C23_ClassifyFailureTerminal ==
    /\ HsClassifyFailureTerminal
    /\ MinClassifyFailed => m_prompt = None

(***************************************************************************)
(* Properties of the degradation of the later steps.                       *)
(***************************************************************************)
\* the template call of the current Classification workflow failed
TemplateFailedNow ==
    /\ ran = {"classification"}
    /\ Len(CurrentCalls) >= 2
    /\ CurrentCalls[2].tool = "get_query_template"
    /\ CallFailed(CurrentCalls[2])

\* C24: when the get_query_template call fails in any way (the transport
\* fails, the tool answers an error payload, or raw text instead of a
\* record) the template is empty and the description is the category; the
\* workflow goes on to the knowledge call, and the prompt of its generation
\* is built from the default instructional text.
C24_TemplateFailureDegrades ==
    TemplateFailedNow =>
        /\ template = S("")
        /\ description = category
        /\ Len(CurrentCalls) = 2 => pc = "get_knowledge_for_query"
        /\ llm_prompts # <<>> =>
               /\ llm_prompts[1].t = "fstr"
               /\ llm_prompts[1].args[1].t = "fstr"
               /\ llm_prompts[1].args[1].f =
                      "Please help with this customer question: {}\n\nBased on this documentation:\n{}\n\nProvide a helpful response."

\* the knowledge call of the current Classification workflow failed
KnowledgeFailedNow ==
    /\ ran = {"classification"}
    /\ Len(CurrentCalls) = 3
    /\ CurrentCalls[3].tool = "get_knowledge_for_query"
    /\ CallFailed(CurrentCalls[3])

\* the knowledge text a prompt of the Classification workflow was built from
PromptKnowledge(prompt) ==
    LET formatted == prompt.args[1]
    IN  formatted.args[Len(formatted.args)]

\* C25: when the get_knowledge_for_query call fails in any way (the
\* transport fails, the tool answers an error payload, or raw text) the
\* workflow goes on to the generation with the knowledge text "No
\* documentation found." and no sources: one prompt was given to query_llm,
\* built from the placeholder, and a result without an error field has an
\* empty sources field.  (A template that names a field other than query
\* and knowledge fails the workflow by itself and is left aside.)
C25_KnowledgeFailureDegrades ==
    (KnowledgeFailedNow /\ ~(template.t = "str" /\ template.s \in BadTemplates)) =>
        /\ Len(llm_prompts) = 1
        /\ PromptKnowledge(llm_prompts[1]) = S("No documentation found.")
        /\ "error" \notin Fields(result) => result.d["sources"] = L(<<>>)

(***************************************************************************)
(* Properties of the results of the workflows.                             *)
(***************************************************************************)
\* the Direct-RAG workflow has returned after a search that answered a list
\* of at least one match, the first three of which are records with a
\* content and a source
SearchMatched ==
    /\ ran = {"direct_rag"}
    /\ pc = "idle"
    /\ returned = "value"
    /\ CurrentCalls # <<>>
    /\ CurrentCalls[1].end = "logged"
    /\ CurrentCalls[1].ret.t = "dict"
    /\ "matches" \in DOMAIN CurrentCalls[1].ret.d
    /\ LET matches == CurrentCalls[1].ret.d["matches"]
       IN  /\ matches.t = "list"
           /\ matches.items # <<>>
           /\ \A i \in 1..Min(Len(matches.items), 3) :
                  /\ matches.items[i].t = "dict"
                  /\ {"content", "source"} \subseteq DOMAIN matches.items[i].d

\* the matches of the search, in rank order
RankedMatches == CurrentCalls[1].ret.d["matches"].items

\* C26: in the Direct-RAG workflow with at least one match only the first
\* three matches contribute, however many the search returned: the prompt
\* given to query_llm holds their contents, joined by the separator in rank
\* order, and the sources of a result without an error field list the
\* source of each of these matches once, and nothing else.
C26_TopThreeContribute ==
    SearchMatched =>
        LET n == Min(Len(RankedMatches), 3)
        IN  /\ Len(llm_prompts) = 1
            /\ llm_prompts[1].args[1] =
                   F("\n\n---\n\n.join",
                     [i \in 1..n |-> RankedMatches[i].d["content"]])
            /\ "error" \notin Fields(result) =>
                   LET sources == result.d["sources"].items
                   IN  /\ \A i \in 1..n :
                              \E k \in 1..Len(sources) :
                                  sources[k] = RankedMatches[i].d["source"]
                       /\ \A k \in 1..Len(sources) :
                              \E i \in 1..n :
                                  sources[k] = RankedMatches[i].d["source"]
                       /\ \A k, l \in 1..Len(sources) :
                              sources[k] = sources[l] => k = l

\* a search has returned four matches, two of the first three from the same
\* source, and the workflow has returned a result with two sources
C26_FourMatchesTwoSources ==
    /\ SearchMatched
    /\ Len(RankedMatches) = 4
    /\ RankedMatches[1].d["source"] = RankedMatches[2].d["source"]
    /\ "error" \notin Fields(result)
    /\ Len(result.d["sources"].items) = 2

\* a Classification workflow has made its generation call and returned a
\* result that is not an error result
GenerationCompleted ==
    /\ ran = {"classification"}
    /\ pc = "idle"
    /\ returned = "value"
    /\ Len(CurrentCalls) = 3
    /\ Len(llm_prompts) = 1
    /\ "error" \notin Fields(result)

\* C27: a result of the Classification workflow that completes the
\* generation carries the category and the confidence the classify call
\* returned, the sources the knowledge call returned, as llm_prompt the very
\* prompt given to query_llm, and a workflow_log that lists the steps in the
\* order they ran ([1/4], result, [2/4], [3/4], info, [4/4], success), even
\* when the generated JSON holds fields of these names itself.
C27_MetadataMerged ==
    GenerationCompleted =>
        LET classified == CurrentCalls[1].ret.d
            cat        == Get(classified, "suggested_query", S("general_support"))
            conf       == Get(classified, "confidence", N(0))
            srcs       == Get(CurrentCalls[3].ret.d, "sources", L(<<>>))
        IN  /\ result.d["classification"].t = "dict"
            /\ result.d["classification"].d["category"] = cat
            /\ result.d["classification"].d["confidence"] = conf
            /\ result.d["sources"] = srcs
            /\ result.d["llm_prompt"] = llm_prompts[1]
            /\ result.d["workflow"] = S("classification")
            /\ result.d["workflow_log"] =
                   L(<<S("[1/4] Classifying query..."),
                       F("[Result] Category: {} (confidence: {:.2f})",
                         <<cat, conf>>),
                       S("[2/4] Getting template..."),
                       F("[3/4] Retrieving knowledge for {}...", <<cat>>),
                       F("[INFO] Retrieved {len} source(s)", <<srcs>>),
                       S("[4/4] Generating response..."),
                       S("[SUCCESS] Response generated")>>)

\* the generation has answered JSON that holds a classification, a
\* workflow_log, sources and an llm_prompt of its own, and the result
\* carries the sources of the knowledge call
C27_GeneratedNamesOverwritten ==
    /\ GenerationCompleted
    /\ Get(result.d, "response", None) = S("See the attached log.")
    /\ result.d["sources"] = L(<<S("security.pdf")>>)
    /\ Get(CurrentCalls[1].ret.d, "suggested_query", None) = S("account_security")

(***************************************************************************)
(* Termination and the number of external calls.                           *)
(***************************************************************************)
\* the external calls the current process_query has made: three tool calls
\* and one generation call at most in the Classification workflow, one tool
\* call and one generation call at most in the Direct-RAG workflow, which
\* has made its tool call when it returns
CallsBounded ==
    /\ Len(llm_prompts) <= 1
    /\ ran = {"classification"} => Len(CurrentCalls) <= 3
    /\ ran = {"direct_rag"} =>
           /\ Len(CurrentCalls) <= 1
           /\ pc = "idle" => Len(CurrentCalls) = 1

\* C29: provided every tool call and every generation call returns or
\* raises, every process_query call returns; it makes at most three tool
\* calls and one generation call in the Classification workflow, and
\* exactly one tool call and at most one generation call in the Direct-RAG
\* workflow: no external call is retried or made in a loop.
C29_TerminatesBounded ==
    /\ []CallsBounded
    /\ (pc # "idle") ~> (pc = "idle" /\ returned = "value")

\* a Direct-RAG call has returned after its one tool call and one
\* generation call
C29_DirectRagDone ==
    /\ ran = {"direct_rag"}
    /\ pc = "idle"
    /\ returned = "value"
    /\ Len(CurrentCalls) = 1
    /\ CurrentCalls[1].tool = "search_knowledge"
    /\ Len(llm_prompts) = 1

(***************************************************************************)
(* The Direct-RAG workflow after a failed search.                          *)
(***************************************************************************)
\* the Direct-RAG workflow has returned after a search call that failed
SearchFailed ==
    /\ ran = {"direct_rag"}
    /\ pc = "idle"
    /\ returned = "value"
    /\ CurrentCalls # <<>>
    /\ CurrentCalls[1].tool = "search_knowledge"
    /\ CallFailed(CurrentCalls[1])

\* C30: in the Direct-RAG workflow a failed search call that gives an
\* {error: message} payload has the result of an empty search: the
\* "couldn't find relevant information" response, empty sources, no error
\* field, and no generation call.  Of the failed searches only those that
\* give no record (raw text, a value that is no object, no value at all)
\* end in the "Search error" result, which has an error field.
C30_ErrorPayloadAsNoMatch ==
    SearchFailed =>
        IF CurrentCalls[1].ret.t = "dict"
        THEN /\ result = D([response |-> S("I couldn't find relevant information. Please try rephrasing."),
                            workflow |-> S("direct_rag"),
                            sources  |-> L(<<>>)])
             /\ llm_prompts = <<>>
        ELSE /\ "error" \in Fields(result)
             /\ result.d["response"] = S("Search error. Please try again.")
             /\ llm_prompts = <<>>

\* the transport failed under the search call of an agent with a backend,
\* and the workflow has answered as for an empty search
C30_TransportFailureNotFound ==
    /\ SearchFailed
    /\ hf_client
    /\ CurrentCalls[1].end = "error_payload"
    /\ CurrentCalls[1].ret = D([error |-> S("Connection closed")])
    /\ "error" \notin Fields(result)
    /\ result.d["sources"] = L(<<>>)

\* the records the coroutines appended, oldest first
Appended == [k \in 1..Len(c_done) |-> c_done[k].record]

\* the newest n elements of a sequence
Newest(seq, n) ==
    IF Len(seq) > n THEN SubSeq(seq, Len(seq) - n + 1, Len(seq)) ELSE seq

\* C28: while several process_query (or query()) coroutines interleave at
\* their awaits on one agent, the log never holds more than 20 records and
\* the history never more than 3 turns, and each record a coroutine logged
\* and each turn it completed is there exactly once, in the order of the
\* appends, until the truncation drops it as the oldest.
C28_InterleavedAppends ==
    /\ Len(mcp_calls_log) <= LOG_CAP
    /\ Len(conversation_history) <= max_history
    /\ c_kind = "omni" =>
           /\ mcp_calls_log = Newest(PriorLog \o Appended, LOG_CAP)
           /\ \A m, n \in 1..Len(mcp_calls_log) :
                  mcp_calls_log[m].timestamp = mcp_calls_log[n].timestamp
                      => m = n
    /\ c_kind = "minimal" =>
           conversation_history = Newest(PriorHistory \o Appended, max_history)

\* two coroutines took turns in logging three calls, and the oldest records
\* were dropped while one of them was still awaiting
C28_TookTurnsAtTheCap ==
    /\ c_kind = "omni"
    /\ Len(c_done) >= 3
    /\ c_done[1].task # c_done[2].task
    /\ c_done[3].task = c_done[1].task
    /\ mcp_calls_log[1].timestamp > 1
    /\ \E i \in Coroutines : c_tasks[i].pc = "get_knowledge_for_query"
====
